---- MODULE Spec2Model ----
(***************************************************************************)
(* Model of the tick orchestration core of the algo trader: the trading    *)
(* state machine (lib/stateMachine), the risk gate (lib/riskGate), the     *)
(* regime permissions (lib/regimeEngine) and the signal-execution part of  *)
(* the tick handler (app/api/tick/route.ts).                               *)
(*                                                                         *)
(* Money is counted in thousandths of a rupee, so that a price may carry a *)
(* third decimal and rounding to two decimals (toFixed(2)) is a real       *)
(* conversion: a rounded amount is a multiple of 10.  Time is counted in   *)
(* milliseconds.                                                           *)
(***************************************************************************)
EXTENDS Integers, Sequences, FiniteSets, TLC

\* ------------------------------------------------------------------------
\* Bounds of the exploration
\* ------------------------------------------------------------------------
MaxPositions == 2
MaxNow == 2
MaxLog == 2
\* the positions the ticks of one run may open
MaxOpened == 3

\* ------------------------------------------------------------------------
\* Program constants
\* ------------------------------------------------------------------------
\* the configuration the constructor falls back to
DefaultConfig == [lockDurationMs |-> 5 * 60 * 1000, maxDailyLosses |-> 3, maxConcurrentPositions |-> 4]
TransitionCap == 50

\* lockUntil: Date | null  -- null is NoLock
NoLock == -1

SystemStates ==
    {"IDLE", "WAITING_FOR_TRIGGER", "POSITION_OPEN", "LOCKED_AFTER_LOSS", "HALTED_FOR_DAY"}

\* ------------------------------------------------------------------------
\* Inputs
\* ------------------------------------------------------------------------
Symbols == {"TCS", "INFY", "RELIANCE"}
\* the (exitReason, exitPrice) pairs callers hand to closePosition
CloseInputs == { <<"Stop-loss hit", 98000>>, <<"Target hit", 98000>>, <<"Target hit", 100000>> }
ClockSteps == {1}

\* the configurations handed to the constructor (config?: Partial<StateMachineConfig>)
Configs == { [DefaultConfig EXCEPT !.lockDurationMs = 1, !.maxDailyLosses = 2,
                                   !.maxConcurrentPositions = 2] }

\* the positions callers hand to openPosition (current = entry, pnl = 0, as the tick does)
OpenInputs ==
    { [symbol |-> "TCS", side |-> "LONG", entry |-> 100000, current |-> 100000, qty |-> 10,
       pnl |-> 0, stopLoss |-> 98000, target |-> 106000] }

\* priceMap: Record<string, number>; 0 stands for a missing (or zero) entry, both falsy
PriceMaps ==
    { [s \in Symbols |-> 98000], [s \in Symbols |-> IF s = "TCS" THEN 106000 ELSE 0] }

VARIABLES
    state,            \* TradingStateMachine.state
    positions,        \* TradingStateMachine.positions
    transitions,      \* TradingStateMachine.transitions
    dailyLossCount,   \* TradingStateMachine.dailyLossCount
    lockUntil,        \* TradingStateMachine.lockUntil
    config,           \* TradingStateMachine.config
    now,              \* the wall clock (Date.now())
    nextId,           \* ids handed out so far + 1 (ids are unique strings in the code)
    app,              \* lib/state: the TradingState the routes read
    engineState,      \* lib/regimeEngine: engineState (tsdCount and regime)
    storage,          \* lib/storage: what Redis and the fallback files hold
    last              \* the last call: its name, the id it was given and the id it returned

vars == <<state, positions, transitions, dailyLossCount, lockUntil, config, now, nextId, app,
          engineState, storage, last>>

\* ------------------------------------------------------------------------
\* The state machine as a value, and its methods as operators on it
\* ------------------------------------------------------------------------
SM == [state |-> state, positions |-> positions, transitions |-> transitions,
       dailyLossCount |-> dailyLossCount, lockUntil |-> lockUntil, config |-> config]

Last(seq, n) == IF Len(seq) > n THEN SubSeq(seq, Len(seq) - n + 1, Len(seq)) ELSE seq

transitionTo(sm, newState, trigger) ==
    [sm EXCEPT
        !.transitions = Last(Append(@, [from |-> sm.state, to |-> newState, trigger |-> trigger]),
                             TransitionCap),
        !.state = newState]

isOpen(p) == p.state = "FILLED" \/ p.state = "PARTIAL"

getOpenPositions(sm) == SelectSeq(sm.positions, isOpen)

\* a getState that lets the lock go at now = lockUntil
getState_eager(sm, t) ==
    IF sm.state = "LOCKED_AFTER_LOSS" /\ sm.lockUntil # NoLock /\ t >= sm.lockUntil
    THEN transitionTo(sm, "IDLE", "Lock period expired")
    ELSE sm

\* getState(): the machine after the call; the value returned is its state
getState(sm, t) ==
    IF sm.state = "LOCKED_AFTER_LOSS" /\ sm.lockUntil # NoLock /\ t > sm.lockUntil
    THEN transitionTo(sm, "IDLE", "Lock period expired")
    ELSE sm

\* a canOpenPosition that lets one position past maxConcurrentPositions
canOpenAllowed_onePastCap(currentState, openCount, maxConcurrentPositions) ==
    CASE currentState = "HALTED_FOR_DAY" -> FALSE
      [] currentState = "LOCKED_AFTER_LOSS" -> FALSE
      [] currentState = "POSITION_OPEN" -> ~(openCount > maxConcurrentPositions)
      [] currentState \in {"IDLE", "WAITING_FOR_TRIGGER"} -> TRUE
      [] OTHER -> FALSE

canOpenAllowed(currentState, openCount, maxConcurrentPositions) ==
    CASE currentState = "HALTED_FOR_DAY" -> FALSE
      [] currentState = "LOCKED_AFTER_LOSS" -> FALSE
      [] currentState = "POSITION_OPEN" -> ~(openCount >= maxConcurrentPositions)
      [] currentState \in {"IDLE", "WAITING_FOR_TRIGGER"} -> TRUE
      [] OTHER -> FALSE

canOpenPosition(sm, t) ==
    LET s1 == getState(sm, t)
    IN  [sm |-> s1, allowed |-> canOpenAllowed(s1.state, Len(getOpenPositions(s1)),
                                                s1.config.maxConcurrentPositions)]

\* an openPosition that does not ask canOpenPosition
openPosition_unchecked(sm, position, id, t) ==
    LET newPosition ==
            [id |-> id, symbol |-> position.symbol, side |-> position.side,
             entry |-> position.entry, current |-> position.current,
             qty |-> position.qty, pnl |-> position.pnl, stopLoss |-> position.stopLoss,
             target |-> position.target, state |-> "FILLED", exitReason |-> ""]
        s2 == [sm EXCEPT !.positions = Append(@, newPosition)]
    IN  [sm |-> transitionTo(s2, "POSITION_OPEN", "Opened"), ret |-> id]

openPosition(sm, position, id, t) ==
    LET check == canOpenPosition(sm, t)
    IN  IF ~check.allowed
        THEN [sm |-> check.sm, ret |-> 0]
        ELSE LET newPosition ==
                     [id |-> id, symbol |-> position.symbol, side |-> position.side,
                      entry |-> position.entry, current |-> position.current,
                      qty |-> position.qty, pnl |-> position.pnl, stopLoss |-> position.stopLoss,
                      target |-> position.target, state |-> "FILLED", exitReason |-> ""]
                 s2 == [check.sm EXCEPT !.positions = Append(@, newPosition)]
             IN  [sm |-> transitionTo(s2, "POSITION_OPEN", "Opened"), ret |-> id]

\* Number(x.toFixed(2)): x rounded to two decimals, halves away from zero
toFixed2(x) ==
    IF x >= 0 THEN ((x + 5) \div 10) * 10 ELSE -(((-x + 5) \div 10) * 10)

\* positions.find(p => p.id === positionId): index of the first match, 0 when there is none
findPosition(sm, positionId) ==
    IF \E i \in 1..Len(sm.positions) : sm.positions[i].id = positionId
    THEN CHOOSE i \in 1..Len(sm.positions) :
            /\ sm.positions[i].id = positionId
            /\ \A j \in 1..(i - 1) : sm.positions[j].id # positionId
    ELSE 0

\* a closePosition that closes a position already CLOSED again
closable_again(sm, positionId) == findPosition(sm, positionId) # 0

\* closePosition returns null for an unknown id and for a position already CLOSED
closable(sm, positionId) ==
    LET i == findPosition(sm, positionId)
    IN  ~(i = 0 \/ sm.positions[i].state = "CLOSED")

\* a PnL that reads every position as LONG
calcPnl_longOnly(side, entry, price, qty) == (price - entry) * qty

calcPnl(side, entry, price, qty) ==
    IF side = "LONG" THEN (price - entry) * qty ELSE (entry - price) * qty

\* exitReason.toLowerCase().includes('stop') || ...includes('sl'), on the reasons in use
reasonNamesStop(exitReason) == exitReason \in {"Stop-loss hit", "Stop Loss", "SL"}

isStopLoss(exitReason, finalPnl) == reasonNamesStop(exitReason) \/ finalPnl < 0

\* a loss classification that wants the exit reason to name a stop
countsAsLoss_byReason(exitReason, finalPnl) == reasonNamesStop(exitReason) /\ finalPnl < 0

countsAsLoss(exitReason, finalPnl) == isStopLoss(exitReason, finalPnl) /\ finalPnl < 0

\* a loss branch that halts one loss late
recordLoss_late(sm, t) ==
    LET s1 == [sm EXCEPT !.dailyLossCount = @ + 1]
    IN  IF s1.dailyLossCount > s1.config.maxDailyLosses
        THEN transitionTo(s1, "HALTED_FOR_DAY", "Max daily losses reached")
        ELSE transitionTo([s1 EXCEPT !.lockUntil = t + s1.config.lockDurationMs],
                          "LOCKED_AFTER_LOSS", "Stop-loss hit")

\* the loss branch of closePosition
recordLoss(sm, t) ==
    LET s1 == [sm EXCEPT !.dailyLossCount = @ + 1]
    IN  IF s1.dailyLossCount >= s1.config.maxDailyLosses
        THEN transitionTo(s1, "HALTED_FOR_DAY", "Max daily losses reached")
        ELSE transitionTo([s1 EXCEPT !.lockUntil = t + s1.config.lockDurationMs],
                          "LOCKED_AFTER_LOSS", "Stop-loss hit")

\* the other branch of closePosition
afterCleanClose(sm) ==
    IF Len(getOpenPositions(sm)) = 0
    THEN transitionTo(sm, "IDLE", "All positions closed")
    ELSE sm

closePosition(sm, positionId, exitReason, exitPrice, t) ==
    IF ~closable(sm, positionId)
    THEN [sm |-> sm, ret |-> 0]
    ELSE LET i == findPosition(sm, positionId)
             position == sm.positions[i]
             finalPnl == calcPnl(position.side, position.entry, exitPrice, position.qty)
             closed == [position EXCEPT !.current = exitPrice, !.pnl = toFixed2(finalPnl),
                                        !.state = "CLOSED", !.exitReason = exitReason]
             s1 == [sm EXCEPT !.positions[i] = closed]
         IN  [sm |-> IF countsAsLoss(exitReason, finalPnl)
                     THEN recordLoss(s1, t)
                     ELSE afterCleanClose(s1),
              ret |-> positionId]

setWaitingForTrigger(sm) ==
    IF sm.state = "IDLE" THEN transitionTo(sm, "WAITING_FOR_TRIGGER", "trigger") ELSE sm

cancelWaiting(sm) ==
    IF sm.state = "WAITING_FOR_TRIGGER" THEN transitionTo(sm, "IDLE", "Waiting cancelled") ELSE sm

\* a kill switch that spares a machine with open positions
activateKillSwitch_unlessOpen(sm) ==
    IF Len(getOpenPositions(sm)) > 0
    THEN sm
    ELSE transitionTo(sm, "HALTED_FOR_DAY", "Kill switch")

activateKillSwitch(sm) == transitionTo(sm, "HALTED_FOR_DAY", "Kill switch")

\* a deactivateKillSwitch that forgets the open positions
restoredState_idle(openCount) == "IDLE"

restoredState(openCount) == IF openCount > 0 THEN "POSITION_OPEN" ELSE "IDLE"

deactivateKillSwitch(sm) ==
    IF sm.state = "HALTED_FOR_DAY"
    THEN transitionTo(sm, restoredState(Len(getOpenPositions(sm))), "Kill switch deactivated")
    ELSE sm

notClosed(p) == p.state # "CLOSED"

\* a reset that sends every state to IDLE
resetForNewDay_anyState(sm) ==
    LET s1 == [sm EXCEPT !.dailyLossCount = 0, !.lockUntil = NoLock,
                         !.positions = SelectSeq(@, notClosed)]
    IN  [transitionTo(s1, "IDLE", "New trading day") EXCEPT !.transitions = <<>>]

resetForNewDay(sm) ==
    LET s1 == [sm EXCEPT !.dailyLossCount = 0, !.lockUntil = NoLock,
                         !.positions = SelectSeq(@, notClosed)]
        s2 == IF s1.state = "HALTED_FOR_DAY" \/ s1.state = "LOCKED_AFTER_LOSS"
              THEN transitionTo(s1, "IDLE", "New trading day")
              ELSE s1
    IN  [s2 EXCEPT !.transitions = <<>>]

\* an update that takes the missing entry of the price map for a price
updatePrice_missingToo(p, priceMap) ==
    IF p.state = "FILLED"
    THEN [p EXCEPT !.current = priceMap[p.symbol],
                   !.pnl = toFixed2(calcPnl(p.side, p.entry, priceMap[p.symbol], p.qty))]
    ELSE p

\* an update that reprices CLOSED positions too
updatePrice_closedToo(p, priceMap) ==
    IF priceMap[p.symbol] # 0
    THEN [p EXCEPT !.current = priceMap[p.symbol],
                   !.pnl = toFixed2(calcPnl(p.side, p.entry, priceMap[p.symbol], p.qty))]
    ELSE p

updatePrice(p, priceMap) ==
    IF p.state = "FILLED" /\ priceMap[p.symbol] # 0
    THEN [p EXCEPT !.current = priceMap[p.symbol],
                   !.pnl = toFixed2(calcPnl(p.side, p.entry, priceMap[p.symbol], p.qty))]
    ELSE p

updatePositionPrices(sm, priceMap) ==
    [sm EXCEPT !.positions = [i \in 1..Len(@) |-> updatePrice(@[i], priceMap)]]

\* a stop test that lets the price sit on the stop
stopBreached_strict(p, price) ==
    \/ p.side = "LONG" /\ price < p.stopLoss
    \/ p.side = "SHORT" /\ price > p.stopLoss

stopBreached(p, price) ==
    \/ p.side = "LONG" /\ price <= p.stopLoss
    \/ p.side = "SHORT" /\ price >= p.stopLoss

targetBreached(p, price) ==
    \/ p.side = "LONG" /\ price >= p.target
    \/ p.side = "SHORT" /\ price <= p.target

\* the body of the loop of checkExits for one position of the snapshot
checkExit(r, p, priceMap, t) ==
    LET currentPrice == priceMap[p.symbol]
    IN  IF currentPrice = 0
        THEN r
        ELSE LET r1 == IF stopBreached(p, currentPrice)
                       THEN [sm |-> closePosition(r.sm, p.id, "Stop-loss hit", currentPrice, t).sm,
                             closed |-> Append(r.closed, <<p.symbol, "SL", currentPrice>>)]
                       ELSE r
                 r2 == IF targetBreached(p, currentPrice)
                       THEN [sm |-> closePosition(r1.sm, p.id, "Target hit", currentPrice, t).sm,
                             closed |-> Append(r1.closed, <<p.symbol, "TGT", currentPrice>>)]
                       ELSE r1
             IN  r2

RECURSIVE checkExitsFrom(_, _, _, _, _)
checkExitsFrom(r, snapshot, k, priceMap, t) ==
    IF k > Len(snapshot)
    THEN r
    ELSE checkExitsFrom(checkExit(r, snapshot[k], priceMap, t), snapshot, k + 1, priceMap, t)

\* checkExits(priceMap): the machine after the call and the descriptions returned
checkExits(sm, priceMap, t) ==
    checkExitsFrom([sm |-> sm, closed |-> <<>>], getOpenPositions(sm), 1, priceMap, t)

\* getStateSummary(): getState() and then canOpenPosition()
getStateSummary(sm, t) ==
    LET s1 == getState(sm, t)
        c == canOpenPosition(s1, t)
    IN  [sm |-> c.sm, state |-> s1.state, canTrade |-> c.allowed,
         openPositions |-> Len(getOpenPositions(s1)), dailyLossCount |-> s1.dailyLossCount,
         isLocked |-> s1.state \in {"LOCKED_AFTER_LOSS", "HALTED_FOR_DAY"}]

\* ------------------------------------------------------------------------
\* lib/state: the application state (the fields the tick reads and writes)
\* ------------------------------------------------------------------------
\* initial_capital: 100000 rupees
InitialCapital == 100000000

initialState ==
    [pnl |-> 0, paper_mode |-> TRUE, initial_capital |-> InitialCapital, kill_switch |-> FALSE]

AppFields(a) ==
    [pnl |-> a.pnl, paper_mode |-> a.paper_mode, initial_capital |-> a.initial_capital,
     kill_switch |-> a.kill_switch]

\* updateState(partial): {...state, ...partial}
updateState(a, partial) ==
    [pnl |-> partial.pnl, paper_mode |-> partial.paper_mode,
     initial_capital |-> partial.initial_capital, kill_switch |-> partial.kill_switch]

\* ------------------------------------------------------------------------
\* lib/storage: Redis first, a file as the fallback
\* ------------------------------------------------------------------------
\* the keys of the trading state, the regime state and the session; <<>> is a key that is
\* not there, <<data>> one that is
NoData == <<>>

StorageKeys == {"state", "regime", "session"}

emptyStorage == [redis |-> [k \in StorageKeys |-> NoData], file |-> [k \in StorageKeys |-> NoData]]

\* what a call finds: Redis answering, Redis unreachable and the directory usable, or neither
Stores == {"redis", "file", "down"}

\* getValue(key): null when there is no client or the request throws
getValue(st, key, store) == IF store = "redis" THEN st.redis[key] ELSE NoData

\* fs.existsSync(file) and JSON.parse(fs.readFileSync(file))
readFile(st, key, store) == IF store = "down" THEN NoData ELSE st.file[key]

\* setValue(key, data) and, when it returns false, fs.writeFileSync(file, data); the write
\* that reaches neither leaves storage as it was (the save returns false)
save(st, key, data, store) ==
    IF store = "redis"
    THEN [st EXCEPT !.redis[key] = <<data>>]
    ELSE IF store = "file"
         THEN [st EXCEPT !.file[key] = <<data>>]
         ELSE st

\* new Date(savedAt).toDateString() === new Date().toDateString(): a snapshot carries whether
\* it was saved on the calendar day of the reader
saveTradingState(a, st, store) ==
    save(st, "state", [data |-> AppFields(a), savedToday |-> TRUE], store)

\* a loadTradingState() that does not compare the days
loadTradingState_anyDay(st, store) ==
    LET redisData == getValue(st, "state", store)
    IN  IF redisData # NoData THEN redisData ELSE readFile(st, "state", store)

\* loadTradingState(): the snapshot of Redis when it is of today, else the snapshot of the
\* file when it is of today, else null
loadTradingState(st, store) ==
    LET redisData == getValue(st, "state", store)
        data == readFile(st, "state", store)
    IN  IF redisData # NoData /\ redisData[1].savedToday
        THEN redisData
        ELSE IF data = NoData
             THEN NoData
             ELSE IF ~data[1].savedToday THEN NoData ELSE data

\* step 0 of the tick: loadTradingState() and, when it is not null, updateState(persistedState)
hydrate(a, st, store) ==
    LET persistedState == loadTradingState(st, store)
    IN  IF persistedState = NoData THEN a ELSE updateState(a, persistedState[1].data)

\* saveRegimeState(exportState())
saveRegimeState(engine, st, store) == save(st, "regime", engine, store)

\* loadRegimeState(): the one of Redis, else the one of the file, of whatever day
loadRegimeState(st, store) ==
    LET redisData == getValue(st, "regime", store)
    IN  IF redisData # NoData THEN redisData ELSE readFile(st, "regime", store)

\* importState(state): the engine takes over what was exported
importState(engine, saved) == IF saved = NoData THEN engine ELSE saved[1]

\* loadSessionInfo()
loadSessionInfo(st, store) ==
    LET redisData == getValue(st, "session", store)
    IN  IF redisData # NoData THEN redisData ELSE readFile(st, "session", store)

\* saveSessionInfo(session): lastActive is the moment of the call
saveSessionInfo(st, store) == save(st, "session", [lastActiveToday |-> TRUE], store)

\* checkDailyReset(): no session, or one last active on another day
checkDailyReset(st, store) ==
    LET session == loadSessionInfo(st, store)
    IN  session = NoData \/ ~session[1].lastActiveToday

\* performDailyReset(): deleteKey(STATE_KEY), the state file unlinked, a new session saved
performDailyReset(st, store) ==
    LET deleted == IF store = "redis" THEN [st EXCEPT !.redis["state"] = NoData] ELSE st
        unlinked == IF store = "down" THEN deleted ELSE [deleted EXCEPT !.file["state"] = NoData]
    IN  saveSessionInfo(unlinked, store)

\* incrementTickCount(): the session read, counted up and saved
incrementTickCount(st, store) == saveSessionInfo(st, store)

\* the calendar day changes: nothing stored is of today any more
midnight(st) ==
    LET aged(slot) ==
            [k \in StorageKeys |->
                IF slot[k] = NoData
                THEN NoData
                ELSE IF k = "state"
                     THEN << [slot[k][1] EXCEPT !.savedToday = FALSE] >>
                     ELSE IF k = "session"
                          THEN << [lastActiveToday |-> FALSE] >>
                          ELSE slot[k]]
    IN  [redis |-> aged(st.redis), file |-> aged(st.file)]

\* ------------------------------------------------------------------------
\* lib/regimeEngine: what a regime permits
\* ------------------------------------------------------------------------
Regimes == {"RANGE_NEUTRAL", "EMERGING_TREND", "ESTABLISHED_TREND"}

\* maxPositionSizeMultiplier is held in hundredths
getRegimePermissions(regime) ==
    CASE regime = "RANGE_NEUTRAL" ->
            [allowMeanReversion |-> TRUE, allowTrendFollowing |-> FALSE,
             maxPositionSizeMultiplier |-> 100, maxConcurrentTrades |-> 4,
             tradingFrequency |-> "NORMAL"]
      [] regime = "EMERGING_TREND" ->
            [allowMeanReversion |-> TRUE, allowTrendFollowing |-> TRUE,
             maxPositionSizeMultiplier |-> 50, maxConcurrentTrades |-> 2,
             tradingFrequency |-> "REDUCED"]
      [] regime = "ESTABLISHED_TREND" ->
            [allowMeanReversion |-> FALSE, allowTrendFollowing |-> TRUE,
             maxPositionSizeMultiplier |-> 25, maxConcurrentTrades |-> 1,
             tradingFrequency |-> "REDUCED"]
      [] OTHER ->
            [allowMeanReversion |-> TRUE, allowTrendFollowing |-> FALSE,
             maxPositionSizeMultiplier |-> 100, maxConcurrentTrades |-> 4,
             tradingFrequency |-> "NORMAL"]

\* ------------------------------------------------------------------------
\* lib/riskGate: the eight checks and the position size
\* ------------------------------------------------------------------------
\* signal.requestedQty absent
NoQty == -1

\* CONFIG.RISK_PER_TRADE, in hundredths of a percent (1% of capital)
RiskPerTrade == 100

\* RISK_CONFIG.TRAILING_ATR_MULT, in hundredths
TrailingAtrMult == 150

\* fractions of capital are held in hundredths of a percent, maxDailyLoss in money
DEFAULT_CONFIG ==
    [maxRiskPerTrade |-> RiskPerTrade, maxDailyDrawdown |-> 150, maxDailyLoss |-> 5000000,
     maxConcurrentPositions |-> 4, maxCorrelatedPositions |-> 2, maxSingleStockExposure |-> 1500]

\* SECTOR_MAP[symbol]; "" stands for undefined
SECTOR_MAP(symbol) ==
    CASE symbol \in {"TCS", "INFY"} -> "IT"
      [] symbol = "RELIANCE" -> "Energy"
      [] OTHER -> ""

abs(x) == IF x < 0 THEN -x ELSE x

Min(a, b) == IF a < b THEN a ELSE b

Max(a, b) == IF a > b THEN a ELSE b

\* capital * fraction, the capital being a whole number of tens of rupees
fractionOf(capital, fraction) == (capital \div 10000) * fraction

\* the requestedQty of the signal, or the fallback when it has none (??)
qtyOr(signal, fallback) == IF signal.requestedQty = NoQty THEN fallback ELSE signal.requestedQty

\* Check 1.  With a zero stop distance maxQty is Infinity and Infinity * 0 is NaN, which
\* compares false
checkPerTradeRisk(cfg, signal, capital) ==
    LET stopDistance == abs(signal.entry - signal.stop)
        maxRiskAmount == fractionOf(capital, cfg.maxRiskPerTrade)
    IN  IF stopDistance = 0
        THEN signal.requestedQty # NoQty
        ELSE LET maxQty == maxRiskAmount \div stopDistance
                 requestedRisk == qtyOr(signal, maxQty) * stopDistance
             IN  requestedRisk <= maxRiskAmount

\* Check 2
checkDailyDrawdown(cfg, currentPnl, capital) ==
    IF currentPnl >= 0 THEN TRUE ELSE abs(currentPnl) < fractionOf(capital, cfg.maxDailyDrawdown)

\* Check 3
checkMaxDailyLoss(cfg, currentPnl) ==
    IF currentPnl >= 0 THEN TRUE ELSE abs(currentPnl) < cfg.maxDailyLoss

\* Check 4
checkMaxPositions(cfg, currentCount, regime) ==
    currentCount < Min(cfg.maxConcurrentPositions, getRegimePermissions(regime).maxConcurrentTrades)

\* Check 5
checkCorrelation(cfg, symbol, openPositions) ==
    LET newSector == IF SECTOR_MAP(symbol) = "" THEN "Unknown" ELSE SECTOR_MAP(symbol)
        sectorCount == Cardinality({i \in 1..Len(openPositions) :
                                       SECTOR_MAP(openPositions[i].symbol) = newSector})
    IN  sectorCount < cfg.maxCorrelatedPositions

\* openPositions.filter(p => p.symbol === symbol).reduce((sum, p) => sum + p.entry * p.qty, 0)
RECURSIVE exposureFrom(_, _, _)
exposureFrom(openPositions, symbol, k) ==
    IF k > Len(openPositions)
    THEN 0
    ELSE (IF openPositions[k].symbol = symbol THEN openPositions[k].entry * openPositions[k].qty
          ELSE 0) + exposureFrom(openPositions, symbol, k + 1)

\* Check 6
checkSingleStockExposure(cfg, signal, capital, openPositions) ==
    LET existingExposure == exposureFrom(openPositions, signal.symbol, 1)
        newExposure == signal.entry * qtyOr(signal, 1)
        totalExposure == existingExposure + newExposure
    IN  totalExposure <= fractionOf(capital, cfg.maxSingleStockExposure)

\* Check 7: getStateMachine().canOpenPosition(), which may let an elapsed lock go
checkStateMachine(sm, t) == canOpenPosition(sm, t)

\* Check 8
checkRegimePermission(regime) == getRegimePermissions(regime).allowMeanReversion

\* a size that divides the risk budget by the entry price
calculatePositionSize_byEntry(cfg, signal, capital) ==
    LET riskAmount == fractionOf(capital, cfg.maxRiskPerTrade)
        stopDistance == abs(signal.entry - signal.stop)
    IN  IF stopDistance = 0 THEN 1 ELSE riskAmount \div signal.entry

calculatePositionSize(cfg, signal, capital) ==
    LET riskAmount == fractionOf(capital, cfg.maxRiskPerTrade)
        stopDistance == abs(signal.entry - signal.stop)
    IN  IF stopDistance = 0 THEN 1 ELSE riskAmount \div stopDistance

\* an adjusted size without the minimum of one share
adjustedQty_unfloored(sized, regime) ==
    (sized * getRegimePermissions(regime).maxPositionSizeMultiplier) \div 100

\* Math.max(1, Math.floor(adjustedQty * permissions.maxPositionSizeMultiplier))
adjustedQty(sized, regime) ==
    Max(1, (sized * getRegimePermissions(regime).maxPositionSizeMultiplier) \div 100)

\* an entry of RiskCheckResult.checks; the reason, a text for the log, is left out
checkEntry(name, passed) == [name |-> name, passed |-> passed]

\* a validateTrade that stops at the first check that fails
validateTrade_shortCircuit(cfg, signal, capital, currentPnl, regime, openPositions, sm, t) ==
    IF ~checkPerTradeRisk(cfg, signal, capital)
    THEN [sm |-> sm, passed |-> FALSE,
          checks |-> << checkEntry("Per-Trade Risk", FALSE) >>,
          adjustedSize |-> adjustedQty(qtyOr(signal, calculatePositionSize(cfg, signal, capital)),
                                       regime)]
    ELSE LET stateCheck == checkStateMachine(sm, t)
             checks == << checkEntry("Per-Trade Risk", TRUE),
                          checkEntry("Daily Drawdown", checkDailyDrawdown(cfg, currentPnl, capital)),
                          checkEntry("Max Daily Loss", checkMaxDailyLoss(cfg, currentPnl)),
                          checkEntry("Max Positions",
                                checkMaxPositions(cfg, Len(openPositions), regime)),
                          checkEntry("Correlation",
                                checkCorrelation(cfg, signal.symbol, openPositions)),
                          checkEntry("Single Stock Exposure",
                                checkSingleStockExposure(cfg, signal, capital, openPositions)),
                          checkEntry("System State", stateCheck.allowed),
                          checkEntry("Regime Permission", checkRegimePermission(regime)) >>
         IN  [sm |-> stateCheck.sm,
              passed |-> \A k \in 1..Len(checks) : checks[k].passed,
              checks |-> checks,
              adjustedSize |-> adjustedQty(qtyOr(signal,
                                                 calculatePositionSize(cfg, signal, capital)),
                                           regime)]

\* validateTrade: the eight checks in order, the size, and the state machine after check 7
validateTrade(cfg, signal, capital, currentPnl, regime, openPositions, sm, t) ==
    LET stateCheck == checkStateMachine(sm, t)
        checks == << checkEntry("Per-Trade Risk", checkPerTradeRisk(cfg, signal, capital)),
                     checkEntry("Daily Drawdown", checkDailyDrawdown(cfg, currentPnl, capital)),
                     checkEntry("Max Daily Loss", checkMaxDailyLoss(cfg, currentPnl)),
                     checkEntry("Max Positions", checkMaxPositions(cfg, Len(openPositions), regime)),
                     checkEntry("Correlation", checkCorrelation(cfg, signal.symbol, openPositions)),
                     checkEntry("Single Stock Exposure",
                           checkSingleStockExposure(cfg, signal, capital, openPositions)),
                     checkEntry("System State", stateCheck.allowed),
                     checkEntry("Regime Permission", checkRegimePermission(regime)) >>
        sized == qtyOr(signal, calculatePositionSize(cfg, signal, capital))
    IN  [sm |-> stateCheck.sm,
         passed |-> \A k \in 1..Len(checks) : checks[k].passed,
         checks |-> checks,
         adjustedSize |-> adjustedQty(sized, regime)]

calculateSafePositionSize(cfg, signal, capital, regime) ==
    LET baseSize == calculatePositionSize(cfg, signal, capital)
    IN  Max(1, (baseSize * getRegimePermissions(regime).maxPositionSizeMultiplier) \div 100)

\* ------------------------------------------------------------------------
\* lib/regimeEngine: the trend-shift-day counter and the regime read from it
\* ------------------------------------------------------------------------
\* the default thresholds of determineRegime
ThresholdA == 3
ThresholdB == 7

\* engineState as the module builds it and as initializeTSDEngine() leaves it; of its fields
\* the counter and the regime are kept (lastTSDDate and history are written and never read
\* by a decision)
initializeTSDEngine == [tsdCount |-> 0, regime |-> "RANGE_NEUTRAL"]

\* a determineRegime whose first band takes the threshold in
determineRegime_inclusive(tsdCount, thresholdA, thresholdB) ==
    IF tsdCount <= thresholdA
    THEN "RANGE_NEUTRAL"
    ELSE IF tsdCount < thresholdB THEN "EMERGING_TREND" ELSE "ESTABLISHED_TREND"

determineRegime(tsdCount, thresholdA, thresholdB) ==
    IF tsdCount < thresholdA
    THEN "RANGE_NEUTRAL"
    ELSE IF tsdCount < thresholdB THEN "EMERGING_TREND" ELSE "ESTABLISHED_TREND"

\* an updateTSDCount whose decay has no floor
updateTSDCount_unfloored(engine, isTSD) ==
    LET count == IF isTSD THEN engine.tsdCount + 1 ELSE engine.tsdCount - 1
    IN  [engineState |-> [tsdCount |-> count,
                          regime |-> determineRegime(count, ThresholdA, ThresholdB)],
         ret |-> count]

\* updateTSDCount(isTSD): the engine it leaves and the count it returns
updateTSDCount(engine, isTSD) ==
    LET count == IF isTSD THEN engine.tsdCount + 1 ELSE Max(0, engine.tsdCount - 1)
    IN  [engineState |-> [tsdCount |-> count,
                          regime |-> determineRegime(count, ThresholdA, ThresholdB)],
         ret |-> count]

\* an applyTSDDecay that leaves the regime as it finds it
applyTSDDecay_keepsRegime(engine, decayAmount) ==
    LET count == Max(0, engine.tsdCount - decayAmount)
    IN  [engineState |-> [engine EXCEPT !.tsdCount = count], ret |-> count]

applyTSDDecay(engine, decayAmount) ==
    LET count == Max(0, engine.tsdCount - decayAmount)
    IN  [engineState |-> [tsdCount |-> count,
                          regime |-> determineRegime(count, ThresholdA, ThresholdB)],
         ret |-> count]

\* processDailyMetrics(metrics): of the metrics only isTSD is read by a decision
processDailyMetrics(engine, metrics) ==
    LET updated == updateTSDCount(engine, metrics.isTSD)
    IN  [engineState |-> updated.engineState, isTSD |-> metrics.isTSD,
         newTSDCount |-> updated.ret, newRegime |-> updated.engineState.regime,
         permissions |-> getRegimePermissions(updated.engineState.regime)]

\* setRegimeOverride(regime, tsdCount?): tsdCount is <<>> when it is not given
setRegimeOverride(engine, regime, tsdCount) ==
    IF tsdCount # <<>>
    THEN [tsdCount |-> tsdCount[1], regime |-> regime]
    ELSE [engine EXCEPT !.regime = regime]

\* getRegimePermissions(regime?): the engine's regime when none is given
currentRegime(engine, regime) == IF regime # <<>> THEN regime[1] ELSE engine.regime

\* ------------------------------------------------------------------------
\* lib/indicators and lib/tradeFilters: ATR and the volatility floor
\* ------------------------------------------------------------------------
\* prices.reduce((a, b) => a + b, 0) over prices[from..to]
RECURSIVE sumOf(_, _, _)
sumOf(prices, from, to) == IF from > to THEN 0 ELSE prices[from] + sumOf(prices, from + 1, to)

\* the loop of calculateEMA from index i on: (price - prevEMA) * 2 / (period + 1) + prevEMA,
\* kept to the thousandth
RECURSIVE emaFrom(_, _, _, _)
emaFrom(ema, prices, i, period) ==
    IF i > Len(prices)
    THEN ema
    ELSE LET prevEMA == ema[Len(ema)]
         IN  emaFrom(Append(ema, prevEMA + ((prices[i] - prevEMA) * 2) \div (period + 1)),
                     prices, i + 1, period)

calculateEMA(prices, period) ==
    IF Len(prices) = 0
    THEN <<>>
    ELSE IF Len(prices) < period
    THEN [k \in 1..Len(prices) |-> sumOf(prices, 1, Len(prices)) \div Len(prices)]
    ELSE emaFrom(<<sumOf(prices, 1, period) \div period>>, prices, period + 1, period)

\* the true range of candle i: the first is high - low
trueRange(candles, i) ==
    IF i = 1
    THEN candles[1].high - candles[1].low
    ELSE Max(candles[i].high - candles[i].low,
             Max(abs(candles[i].high - candles[i - 1].close),
                 abs(candles[i].low - candles[i - 1].close)))

calculateATR(candles, period) ==
    IF Len(candles) < 2
    THEN <<0>>
    ELSE calculateEMA([i \in 1..Len(candles) |-> trueRange(candles, i)], period)

getCurrentATR(candles, period) ==
    LET atr == calculateATR(candles, period)
    IN  IF Len(atr) > 0 THEN atr[Len(atr)] ELSE 0

\* candles.slice(-12)
sliceLast(candles, n) ==
    IF Len(candles) > n THEN SubSeq(candles, Len(candles) - n + 1, Len(candles)) ELSE candles

\* Math.max(...recentCandles.map(c => c.high)) - Math.min(...recentCandles.map(c => c.low))
firstHourRange(recentCandles) ==
    LET highs == {recentCandles[i].high : i \in 1..Len(recentCandles)}
        lows == {recentCandles[i].low : i \in 1..Len(recentCandles)}
    IN  (CHOOSE h \in highs : \A x \in highs : x <= h)
        - (CHOOSE l \in lows : \A x \in lows : l <= x)

\* shouldSkipToday(candles).skip; minRangeAtr is RISK_CONFIG.MIN_FIRST_HOUR_RANGE_ATR in
\* hundredths, and rangeRatio < minimum is compared as range < minimum * atr
shouldSkipToday(candles, minRangeAtr) ==
    IF Len(candles) < 20
    THEN TRUE
    ELSE LET atr == getCurrentATR(candles, 14)
         IN  IF atr <= 0
             THEN FALSE
             ELSE firstHourRange(sliceLast(candles, 12)) * 100 < minRangeAtr * atr

\* ------------------------------------------------------------------------
\* lib/aiEngine: the analysis of a chart and what is made of it
\* ------------------------------------------------------------------------
AiTrends == {"BULLISH", "BEARISH", "NEUTRAL", "UNCERTAIN"}

\* analyzeChart: what every failure returns
fallbackResult == [success |-> FALSE, trend |-> "UNCERTAIN", confidence |-> 0]

\* systemSignal null
NoSignal == ""

\* a resolveConflict that skips on every disagreement it does not ignore
resolveConflict_alwaysSkips(systemSignal, aiResult, regime) ==
    LET resolution == [systemSignal |-> systemSignal, aiTrend |-> aiResult.trend,
                       conflict |-> FALSE, resolution |-> "PROCEED"]
        isLongSignal == systemSignal = "LONG"
        isShortSignal == systemSignal = "SHORT"
        isBullishAI == aiResult.trend = "BULLISH"
        isBearishAI == aiResult.trend = "BEARISH"
        isNeutralAI == aiResult.trend = "NEUTRAL"
    IN  IF systemSignal = NoSignal
        THEN resolution
        ELSE IF ~aiResult.success \/ aiResult.trend = "UNCERTAIN"
        THEN resolution
        ELSE IF aiResult.confidence < 40
        THEN resolution
        ELSE IF (isLongSignal /\ isBullishAI) \/ (isShortSignal /\ isBearishAI)
        THEN resolution
        ELSE IF isNeutralAI
        THEN [resolution EXCEPT !.conflict = TRUE, !.resolution = "REDUCE_SIZE"]
        ELSE IF (isLongSignal /\ isBearishAI) \/ (isShortSignal /\ isBullishAI)
        THEN [resolution EXCEPT !.conflict = TRUE, !.resolution = "SKIP"]
        ELSE resolution

\* resolveConflict(systemSignal, aiResult, regime); the regime is not read
resolveConflict(systemSignal, aiResult, regime) ==
    LET resolution == [systemSignal |-> systemSignal, aiTrend |-> aiResult.trend,
                       conflict |-> FALSE, resolution |-> "PROCEED"]
        isLongSignal == systemSignal = "LONG"
        isShortSignal == systemSignal = "SHORT"
        isBullishAI == aiResult.trend = "BULLISH"
        isBearishAI == aiResult.trend = "BEARISH"
        isNeutralAI == aiResult.trend = "NEUTRAL"
    IN  IF systemSignal = NoSignal
        THEN resolution
        ELSE IF ~aiResult.success \/ aiResult.trend = "UNCERTAIN"
        THEN resolution
        ELSE IF aiResult.confidence < 40
        THEN resolution
        ELSE IF (isLongSignal /\ isBullishAI) \/ (isShortSignal /\ isBearishAI)
        THEN resolution
        ELSE IF isNeutralAI
        THEN [resolution EXCEPT !.conflict = TRUE, !.resolution = "REDUCE_SIZE"]
        ELSE IF (isLongSignal /\ isBearishAI) \/ (isShortSignal /\ isBullishAI)
        THEN IF aiResult.confidence >= 70
             THEN [resolution EXCEPT !.conflict = TRUE, !.resolution = "SKIP"]
             ELSE [resolution EXCEPT !.conflict = TRUE, !.resolution = "REDUCE_SIZE"]
        ELSE resolution

\* ------------------------------------------------------------------------
\* app/api/tick: one tick, with what it gets from its collaborators as input
\* ------------------------------------------------------------------------
\* the signals generateSignal hands back (entry = the close of the quote)
SignalInputs ==
    { <<>>,
      << [symbol |-> "TCS", side |-> "LONG", entry |-> 100000, stop |-> 98000, target |-> 106000] >>,
      << [symbol |-> "TCS", side |-> "LONG", entry |-> 100000, stop |-> 90000, target |-> 130000] >>,
      << [symbol |-> "TCS", side |-> "LONG", entry |-> 100000, stop |-> 98000, target |-> 106000],
         [symbol |-> "INFY", side |-> "SHORT", entry |-> 100000, stop |-> 102000, target |-> 94000] >>,
      \* a close of 12000 on a low of 10900: the stop is 10900 * 0.998
      << [symbol |-> "RELIANCE", side |-> "LONG", entry |-> 12000000, stop |-> 10878200,
          target |-> 13650000] >> }

\* marketData: the close per symbol, 0 for a symbol without a quote
QuoteMaps ==
    { [s \in Symbols |-> IF s = "RELIANCE" THEN 12000000 ELSE 100000],
      [s \in Symbols |-> 98000],
      [s \in Symbols |-> IF s = "RELIANCE" THEN 12000000 ELSE 106000],
      [s \in Symbols |-> 0] }

\* the analysis the tick is handed for a signal: <<>> when the AI is not configured or the
\* symbol has fewer than 10 candles, else what getCachedAnalysis returns
NoAnalysis == <<>>

AiInputs ==
    { NoAnalysis, << fallbackResult >> }
    \cup { << [success |-> TRUE, trend |-> "BEARISH", confidence |-> c] >> : c \in {39, 40, 69, 70} }
    \cup { << [success |-> TRUE, trend |-> "BULLISH", confidence |-> c] >> : c \in {39, 69, 70} }
    \cup { << [success |-> TRUE, trend |-> "NEUTRAL", confidence |-> c] >> : c \in {39, 40, 100} }
    \cup { << [success |-> TRUE, trend |-> "UNCERTAIN", confidence |-> 80] >> }

\* the AI confirmation of the execution loop: the resolution for one signal
aiConfirmation(signal, ai, regime) ==
    IF ai = NoAnalysis
    THEN "PROCEED"
    ELSE resolveConflict(signal.side, ai[1], regime).resolution

\* what one tick is handed: the risk engine's verdict, the market hours, the data source,
\* whether the session metrics make a trend-shift day, the quotes, the signals, the AI's
\* analysis, the broker's answer to placeOrder, whether Date.now() % 10 is 0, and what
\* storage does; the last three are drawn from the sets given
EnvsWith(ais, persists, stores) ==
    { e \in [riskAllowed : BOOLEAN, marketOpen : BOOLEAN, squareOff : BOOLEAN,
             realData : BOOLEAN, isTSD : BOOLEAN, quotes : QuoteMaps, signals : SignalInputs,
             ai : ais, orderOk : BOOLEAN, persist : persists, store : stores] :
        \* inputs the tick never looks at are held at one value
        /\ ~e.riskAllowed =>
              (~e.marketOpen /\ ~e.isTSD /\ e.quotes = [s \in Symbols |-> 0] /\ ~e.persist)
        /\ ~e.marketOpen => (~e.squareOff /\ ~e.realData)
        \* the regime decides nothing but the signals, which need broker data
        /\ ~e.realData => ~e.isTSD
        /\ e.signals # <<>> =>
              (/\ e.marketOpen /\ e.realData
               /\ \A k \in 1..Len(e.signals) : e.quotes[e.signals[k].symbol] = e.signals[k].entry)
        /\ e.signals = <<>> => (e.ai = NoAnalysis /\ e.orderOk)
        /\ (\A k \in 1..Len(e.signals) :
               aiConfirmation(e.signals[k], e.ai, "RANGE_NEUTRAL") = "SKIP") => e.orderOk
        \* a broker source that returns nothing is replaced by Yahoo
        /\ (\A s \in Symbols : e.quotes[s] = 0) => ~e.realData }

\* the ticks of a deployment whose Redis answers and that has no key for the AI, at moments
\* that are not a multiple of ten milliseconds
TickEnvs == EnvsWith({NoAnalysis}, {FALSE}, {"redis"})

\* auto square-off: for each open position, updatePositionPrices({[pos.symbol]: pos.current})
RECURSIVE squareOffFrom(_, _)
squareOffFrom(sm, k) ==
    IF k > Len(sm.positions)
    THEN sm
    ELSE IF isOpen(sm.positions[k])
         THEN squareOffFrom(
                  updatePositionPrices(sm, [s \in Symbols |-> IF s = sm.positions[k].symbol
                                                               THEN sm.positions[k].current
                                                               ELSE 0]),
                  k + 1)
         ELSE squareOffFrom(sm, k + 1)

\* signals.slice(0, 2)
slice2(signals) == IF Len(signals) > 2 THEN SubSeq(signals, 1, 2) ELSE signals

\* dhanApi.placeOrder: an OrderResult whatever happens, success false when the symbol is
\* unknown, the broker refuses or the request throws; NoOrder is null, which it never returns
NoOrder == <<>>

placeOrder(brokerAccepts) == << [success |-> brokerAccepts] >>

\* the body of the execution loop for one signal; r holds the state machine, the next id,
\* the calls made so far, the orders sent and refused, the positions opened, and for each
\* signal that passed the gate the size it was given and the analysis it was confirmed with
executeSignal(r, signal, st, env, regime, openPositions, t) ==
    LET riskCheck == validateTrade(DEFAULT_CONFIG,
                                   [symbol |-> signal.symbol, side |-> signal.side,
                                    entry |-> signal.entry, stop |-> signal.stop,
                                    target |-> signal.target, requestedQty |-> NoQty],
                                   st.initial_capital, st.pnl, regime, openPositions, r.sm, t)
        checked == [r EXCEPT !.sm = riskCheck.sm, !.calls = Append(@, "validateTrade")]
        resolution == aiConfirmation(signal, env.ai, regime)
        sized == IF riskCheck.adjustedSize # 0
                 THEN riskCheck.adjustedSize
                 ELSE calculateSafePositionSize(DEFAULT_CONFIG, signal, st.initial_capital,
                                                regime)
        \* Math.floor(qty * aiSizeMultiplier)
        qty == IF resolution = "REDUCE_SIZE" THEN sized \div 2 ELSE sized
        confirmed == [checked EXCEPT !.confirmed =
                          Append(@, [symbol |-> signal.symbol, side |-> signal.side,
                                     size |-> sized, ai |-> env.ai])]
        order == IF st.paper_mode THEN NoOrder ELSE placeOrder(env.orderOk)
        asked == IF st.paper_mode
                 THEN confirmed
                 ELSE [confirmed EXCEPT !.calls = Append(@, "placeOrder"),
                                      !.orders = @ + 1,
                                      !.refused = @ + (IF order[1].success THEN 0 ELSE 1)]
        opened == openPosition(asked.sm,
                               [symbol |-> signal.symbol, side |-> signal.side,
                                entry |-> signal.entry, current |-> signal.entry, qty |-> qty,
                                pnl |-> 0, stopLoss |-> signal.stop, target |-> signal.target],
                               asked.nextId, t)
    IN  IF ~riskCheck.passed
        THEN checked
        ELSE IF resolution = "SKIP"
        THEN confirmed
        ELSE IF ~st.paper_mode /\ order = NoOrder
        THEN asked
        ELSE [asked EXCEPT !.sm = opened.sm,
                           !.nextId = IF opened.ret = 0 THEN @ ELSE @ + 1,
                           !.opened = IF opened.ret = 0 THEN @ ELSE @ + 1,
                           !.calls = Append(@, "openPosition")]

RECURSIVE executeSignals(_, _, _, _, _, _, _, _)
executeSignals(r, signals, k, st, env, regime, openPositions, t) ==
    IF k > Len(signals)
    THEN r
    ELSE executeSignals(executeSignal(r, signals[k], st, env, regime, openPositions, t),
                        signals, k + 1, st, env, regime, openPositions, t)

\* managedPositions.reduce((sum, p) => sum + p.pnl, 0)
RECURSIVE sumPnl(_, _)
sumPnl(ps, k) == IF k > Len(ps) THEN 0 ELSE ps[k].pnl + sumPnl(ps, k + 1)

\* step 3 of the tick: the source the quotes came from; a broker source is replaced when it
\* returns nothing, and NO_DATA is what is left when Yahoo returns nothing either
dataSource(env) ==
    IF \A s \in Symbols : env.quotes[s] = 0
    THEN "NO_DATA"
    ELSE IF env.realData THEN "DHAN_LIVE" ELSE "YAHOO_FINANCE"

\* step 5 of the tick looks for signals only in market hours, on broker data, in a regime
\* that allows mean reversion
looksForSignals_anyRegime(env, regime) == env.marketOpen /\ dataSource(env) = "DHAN_LIVE"

looksForSignals(env, regime) ==
    /\ env.marketOpen
    /\ dataSource(env) = "DHAN_LIVE"
    /\ getRegimePermissions(regime).allowMeanReversion

\* the signals of the tick
tickSignals(env, regime) == IF looksForSignals(env, regime) THEN env.signals ELSE <<>>

\* step 5 as a stage of the tick: the signals and the calls made for them
generateSignals(env, regime) ==
    [signals |-> tickSignals(env, regime),
     calls |-> IF looksForSignals(env, regime) THEN <<"generateSignal">> ELSE <<>>]

\* no signal was validated, so no list of open positions was handed to the gate
NoCount == -1

\* a step 7 that hands the gate every position of the machine, closed ones included
executeTrades_countsClosed(sm, id, calls, st, env, regime, t) ==
    LET r == [sm |-> sm, nextId |-> id, calls |-> calls, orders |-> 0, refused |-> 0,
              opened |-> 0, counted |-> NoCount, confirmed |-> <<>>]
    IN  IF /\ tickSignals(env, regime) # <<>>
           /\ env.marketOpen
           /\ getRegimePermissions(regime).tradingFrequency # "HALTED"
        THEN executeSignals([r EXCEPT !.counted = Len(sm.positions)],
                            slice2(tickSignals(env, regime)), 1, st, env, regime, sm.positions, t)
        ELSE r

\* step 7 of the tick: the open positions are read once, before the loop; counted is how
\* many the gate is handed
executeTrades(sm, id, calls, st, env, regime, t) ==
    LET r == [sm |-> sm, nextId |-> id, calls |-> calls, orders |-> 0, refused |-> 0,
              opened |-> 0, counted |-> NoCount, confirmed |-> <<>>]
    IN  IF /\ tickSignals(env, regime) # <<>>
           /\ env.marketOpen
           /\ getRegimePermissions(regime).tradingFrequency # "HALTED"
        THEN executeSignals([r EXCEPT !.counted = Len(getOpenPositions(sm))],
                            slice2(tickSignals(env, regime)), 1, st, env, regime,
                            getOpenPositions(sm), t)
        ELSE r

\* steps 9 to 11 of the tick: the PnL of the open positions
updatedState(st, sm) == [st EXCEPT !.pnl = toFixed2(sumPnl(getOpenPositions(sm), 1))]

\* the daily reset check of the tick and incrementTickCount()
sessionKept(st, store) ==
    incrementTickCount(IF checkDailyReset(st, store) THEN performDailyReset(st, store) ELSE st,
                       store)

\* step 13 of the tick: saveTradingState(getState()) and saveRegimeState(exportRegimeState())
\* when Date.now() % 10 is 0; what the saves return is not read
persistData(a, engine, st, env) ==
    IF env.persist
    THEN saveRegimeState(engine, saveTradingState(a, st, env.store), env.store)
    ELSE st

\* ------------------------------------------------------------------------
\* Specification of the state machine under direct calls
\* ------------------------------------------------------------------------
NoCall == [op |-> "none", id |-> 0, retId |-> 0]

Install(sm) ==
    /\ state' = sm.state
    /\ positions' = sm.positions
    /\ transitions' = sm.transitions
    /\ dailyLossCount' = sm.dailyLossCount
    /\ lockUntil' = sm.lockUntil
    /\ config' = sm.config

Init ==
    /\ state = "IDLE"
    /\ positions = <<>>
    /\ transitions = <<>>
    /\ dailyLossCount = 0
    /\ lockUntil = NoLock
    /\ config \in Configs
    /\ now = 0
    /\ nextId = 1
    /\ app = initialState
    /\ engineState = initializeTSDEngine
    /\ storage = emptyStorage
    /\ last = NoCall

Budget == Len(transitions) < MaxLog

GetState ==
    /\ Budget
    /\ LET s1 == getState(SM, now)
       IN  /\ Install(s1)
           /\ last' = [NoCall EXCEPT !.op = "getState"]
    /\ UNCHANGED <<now, nextId, app, engineState, storage>>

CanOpenPosition ==
    /\ Budget
    /\ LET c == canOpenPosition(SM, now)
       IN  /\ Install(c.sm)
           /\ last' = [NoCall EXCEPT !.op = "canOpenPosition"]
    /\ UNCHANGED <<now, nextId, app, engineState, storage>>

GetStateSummary ==
    /\ Budget
    /\ LET r == getStateSummary(SM, now)
       IN  /\ Install(r.sm)
           /\ last' = [NoCall EXCEPT !.op = "getStateSummary"]
    /\ UNCHANGED <<now, nextId, app, engineState, storage>>

\* openPosition(position), for the positions callers hand it
OpenPositionFrom(inputs) ==
    /\ Budget
    /\ nextId <= MaxPositions
    /\ \E position \in inputs :
          LET r == openPosition(SM, position, nextId, now)
          IN  /\ Install(r.sm)
              /\ nextId' = IF r.ret = 0 THEN nextId ELSE nextId + 1
              /\ last' = [NoCall EXCEPT !.op = "openPosition", !.retId = r.ret]
    /\ UNCHANGED <<now, app, engineState, storage>>

OpenPosition == OpenPositionFrom(OpenInputs)

\* closePosition(positionId, exitReason, exitPrice), for the exits callers hand it
ClosePositionFrom(inputs) ==
    /\ Budget
    /\ \E positionId \in 1..nextId, c \in inputs :
          LET r == closePosition(SM, positionId, c[1], c[2], now)
          IN  /\ Install(r.sm)
              /\ last' = [NoCall EXCEPT !.op = "closePosition", !.id = positionId,
                                        !.retId = r.ret]
    /\ UNCHANGED <<now, nextId, app, engineState, storage>>

ClosePosition == ClosePositionFrom(CloseInputs)

SetWaitingForTrigger ==
    /\ Budget
    /\ Install(setWaitingForTrigger(SM))
    /\ last' = [NoCall EXCEPT !.op = "setWaitingForTrigger"]
    /\ UNCHANGED <<now, nextId, app, engineState, storage>>

CancelWaiting ==
    /\ Budget
    /\ Install(cancelWaiting(SM))
    /\ last' = [NoCall EXCEPT !.op = "cancelWaiting"]
    /\ UNCHANGED <<now, nextId, app, engineState, storage>>

ActivateKillSwitch ==
    /\ Budget
    /\ Install(activateKillSwitch(SM))
    /\ last' = [NoCall EXCEPT !.op = "activateKillSwitch"]
    /\ UNCHANGED <<now, nextId, app, engineState, storage>>

DeactivateKillSwitch ==
    /\ Budget
    /\ Install(deactivateKillSwitch(SM))
    /\ last' = [NoCall EXCEPT !.op = "deactivateKillSwitch"]
    /\ UNCHANGED <<now, nextId, app, engineState, storage>>

ResetForNewDay ==
    /\ Install(resetForNewDay(SM))
    /\ last' = [NoCall EXCEPT !.op = "resetForNewDay"]
    /\ UNCHANGED <<now, nextId, app, engineState, storage>>

\* updatePositionPrices(priceMap), for the price maps callers hand it
UpdatePositionPricesFrom(inputs) ==
    /\ Budget
    /\ \E priceMap \in inputs :
          Install(updatePositionPrices(SM, priceMap))
    /\ last' = [NoCall EXCEPT !.op = "updatePositionPrices"]
    /\ UNCHANGED <<now, nextId, app, engineState, storage>>

UpdatePositionPrices == UpdatePositionPricesFrom(PriceMaps)

\* checkExits(priceMap), for the price maps callers hand it
CheckExitsFrom(inputs) ==
    /\ Budget
    /\ \E priceMap \in inputs :
          LET r == checkExits(SM, priceMap, now)
          IN  /\ Install(r.sm)
              /\ last' = [op |-> "checkExits", id |-> 0, retId |-> 0,
                          priceMap |-> priceMap, closedPositions |-> r.closed]
    /\ UNCHANGED <<now, nextId, app, engineState, storage>>

CheckExits == CheckExitsFrom(PriceMaps)

\* time passes between calls; the clock is read only against a lock (getState) and to set
\* one (closePosition), so it is counted from the first lock on
AdvanceClock ==
    /\ lockUntil # NoLock
    /\ \E d \in ClockSteps :
          /\ now + d <= MaxNow
          /\ now' = now + d
    /\ last' = [NoCall EXCEPT !.op = "advanceClock"]
    /\ UNCHANGED <<state, positions, transitions, dailyLossCount, lockUntil, config, nextId, app,
                   engineState, storage>>

Next ==
    \/ GetState
    \/ CanOpenPosition
    \/ GetStateSummary
    \/ OpenPosition
    \/ ClosePosition
    \/ SetWaitingForTrigger
    \/ CancelWaiting
    \/ ActivateKillSwitch
    \/ DeactivateKillSwitch
    \/ ResetForNewDay
    \/ UpdatePositionPrices
    \/ CheckExits
    \/ AdvanceClock

Spec == Init /\ [][Next]_vars

TypeOK ==
    /\ state \in SystemStates
    /\ dailyLossCount \in Nat
    /\ lockUntil \in Int
    /\ now \in 0..MaxNow
    /\ nextId \in 1..(MaxPositions + 2)

\* ------------------------------------------------------------------------
\* Specification of the application: ticks and the routes of the operator
\* ------------------------------------------------------------------------
\* the regime state an earlier day left in Redis, if any: loadRegimeState() is blind to days
\* and the daily reset leaves the key alone
SavedRegimes ==
    { NoData,
      << [tsdCount |-> 2, regime |-> "RANGE_NEUTRAL"] >>,
      << [tsdCount |-> 6, regime |-> "EMERGING_TREND"] >> }

\* getStateMachine() builds the machine without a configuration
TickInit ==
    /\ state = "IDLE"
    /\ positions = <<>>
    /\ transitions = <<>>
    /\ dailyLossCount = 0
    /\ lockUntil = NoLock
    /\ config = DefaultConfig
    /\ now = 0
    /\ nextId = 1
    /\ app = initialState
    /\ engineState = initializeTSDEngine
    /\ storage \in { [emptyStorage EXCEPT !.redis["regime"] = saved] :
                       saved \in SavedRegimes }
    /\ last = NoCall

\* what a route leaves behind
Finish(sm, a, id, engine, st) ==
    /\ Install(sm)
    /\ app' = a
    /\ nextId' = id
    /\ engineState' = engine
    /\ storage' = st

\* what a tick leaves in last: the status of the response and what the tick did; calls are
\* the calls of steps 5 to 7, in the order they were made; store is what storage did
TickReturn(status, source, regime, signals, r, store, persist) ==
    [op |-> "tick", id |-> 0, retId |-> 0, status |-> status, data_source |-> source,
     regime |-> regime, signals_count |-> Len(signals), calls |-> r.calls,
     orders |-> r.orders, refused |-> r.refused, counted |-> r.counted,
     opened |-> r.opened, confirmed |-> r.confirmed, store |-> store, persist |-> persist,
     trail_exits |-> {}]

NothingDone ==
    [calls |-> <<>>, orders |-> 0, refused |-> 0, opened |-> 0, counted |-> NoCount,
     confirmed |-> <<>>]

\* what the tick is handed matters only where the tick looks at it: shouldAutoSquareOff when
\* a position is open, the broker's answer when the application trades live, the analysis
\* when the regime lets signals through
Looked(env, st, sm, regime) ==
    /\ env.squareOff => Len(getOpenPositions(sm)) > 0
    /\ st.paper_mode => env.orderOk
    /\ ~getRegimePermissions(regime).allowMeanReversion => (env.ai = NoAnalysis /\ env.orderOk)

\* the symbols a trailing stop can be reported breached for: those with a quote and an open
\* position (the engine keeps one stop per open symbol)
trailed(sm, quotes) ==
    { s \in Symbols : /\ quotes[s] # 0
                      /\ \E i \in 1..Len(sm.positions) :
                            isOpen(sm.positions[i]) /\ sm.positions[i].symbol = s }

\* what updateTrailingStop reports in the tick's loop over the watchlist: the symbols whose
\* result has stopped set
NoTrailExits == { {} }
TrailExits == SUBSET Symbols

\* POST /api/tick, statement by statement, handed one of envs while storage does one of
\* stores and updateTrailingStop reports one of trails
TickAt(envs, stores, trails) ==
    /\ \E store \in stores :
       \E st \in {hydrate(app, storage, store)} :
          IF st.kill_switch
          THEN /\ Finish(activateKillSwitch(SM), st, nextId, engineState, storage)
               /\ last' = TickReturn("halted", "", "", <<>>, NothingDone, store, FALSE)
          ELSE \E canTrade \in {canOpenPosition(SM, now)} :
               IF ~canTrade.allowed /\ getState(canTrade.sm, now).state = "HALTED_FOR_DAY"
               THEN /\ Finish(getState(canTrade.sm, now), st, nextId, engineState, storage)
                    /\ last' = TickReturn("halted", "", "", <<>>, NothingDone, store, FALSE)
               ELSE \E kept \in {sessionKept(storage, store)} :
                    \E engine \in {importState(engineState, loadRegimeState(storage, store))} :
                    \E env \in envs :
                    /\ env.store = store
                    /\ nextId + Len(env.signals) <= MaxOpened + 1
                    /\ IF ~env.riskAllowed
                       THEN /\ Looked(env, st, canTrade.sm, engine.regime)
                            /\ Finish(canTrade.sm, st, nextId, engine, kept)
                            /\ last' = TickReturn("risk_blocked", "", "", <<>>, NothingDone,
                                                  store, FALSE)
                       ELSE \E regimeResult \in {processDailyMetrics(engine,
                                                                     [isTSD |-> env.isTSD])} :
                            \E regime \in {regimeResult.newRegime} :
                            /\ Looked(env, st, canTrade.sm, regime)
                            /\ \E s2 \in {IF env.marketOpen /\ env.squareOff
                                          THEN squareOffFrom(canTrade.sm, 1)
                                          ELSE canTrade.sm} :
                               \E found \in {generateSignals(env, regime)} :
                               \E stopped \in trails \cap SUBSET trailed(s2, env.quotes) :
                               \E s3 \in {updatePositionPrices(s2, env.quotes)} :
                               \E s4 \in {checkExits(s3, env.quotes, now).sm} :
                               \E r \in {executeTrades(s4, nextId,
                                                       found.calls \o <<"updatePositionPrices",
                                                                        "checkExits">>,
                                                       st, env, regime, now)} :
                               \E summary \in {getStateSummary(r.sm, now)} :
                               \E updated \in {updatedState(st, r.sm)} :
                                  /\ Finish(summary.sm, updated, r.nextId,
                                            regimeResult.engineState,
                                            persistData(updated, regimeResult.engineState, kept,
                                                        env))
                                  /\ last' = [TickReturn("success", dataSource(env), regime,
                                                         found.signals, r, store, env.persist)
                                                 EXCEPT !.trail_exits = stopped]

\* a tick takes time
TickOver(envs, stores) ==
    /\ now < MaxNow
    /\ TickAt(envs, stores, NoTrailExits)
    /\ now' = now + 1

Tick == TickOver(TickEnvs, {"redis"})

\* POST /api/killswitch: the switch toggled and the state saved
KillSwitchRouteOver(stores) ==
    /\ \E store \in stores :
          /\ app' = [app EXCEPT !.kill_switch = ~app.kill_switch]
          /\ storage' = saveTradingState(app', storage, store)
    /\ last' = [NoCall EXCEPT !.op = "killswitch"]
    /\ UNCHANGED <<state, positions, transitions, dailyLossCount, lockUntil, config, now, nextId,
                   engineState>>

KillSwitchRoute == KillSwitchRouteOver({"redis"})

\* POST /api/broker: setBrokerMode(broker)
BrokerRoute ==
    /\ \E mode \in {"PAPER", "DHAN"} :
          app' = [app EXCEPT !.paper_mode = (mode = "PAPER")]
    /\ last' = [NoCall EXCEPT !.op = "broker"]
    /\ UNCHANGED <<state, positions, transitions, dailyLossCount, lockUntil, config, now, nextId,
                   engineState, storage>>

TickNext ==
    \/ Tick
    \/ KillSwitchRoute
    \/ BrokerRoute

TickSpec == TickInit /\ [][TickNext]_vars

\* ------------------------------------------------------------------------
\* Specification of the risk gate: validateTradeSignal and calculateSafePositionSize
\* called between the calls that move the state machine
\* ------------------------------------------------------------------------
\* the signals handed to the gate: an ordinary one, one whose entry is its stop, one whose
\* stop is further away than the risk budget, and one that asks for a quantity
GateSignals ==
    { [symbol |-> "TCS", side |-> "LONG", entry |-> 100000, stop |-> 98000, target |-> 106000,
       requestedQty |-> NoQty],
      [symbol |-> "TCS", side |-> "LONG", entry |-> 100000, stop |-> 100000, target |-> 106000,
       requestedQty |-> NoQty],
      [symbol |-> "RELIANCE", side |-> "LONG", entry |-> 12000000, stop |-> 10878200,
       target |-> 13650000, requestedQty |-> NoQty],
      [symbol |-> "INFY", side |-> "SHORT", entry |-> 100000, stop |-> 102000, target |-> 94000,
       requestedQty |-> 1] }

\* capital: 100000 and 10000 rupees; the PnL of the day: none, and a loss of 2000 rupees
Capitals == {InitialCapital, InitialCapital \div 10}
DailyPnls == {0, -2000000}

GateCall(op, signal, capital, currentPnl, regime, passed, size, checks) ==
    [op |-> op, id |-> 0, retId |-> 0, signal |-> signal, capital |-> capital,
     currentPnl |-> currentPnl, regime |-> regime, passed |-> passed, size |-> size,
     checks |-> checks]

ValidateTrade ==
    /\ \E signal \in GateSignals, capital \in Capitals, currentPnl \in DailyPnls,
          regime \in Regimes :
          \E v \in {validateTrade(DEFAULT_CONFIG, signal, capital, currentPnl, regime,
                                  getOpenPositions(SM), SM, now)} :
             /\ Install(v.sm)
             /\ last' = GateCall("validateTrade", signal, capital, currentPnl, regime,
                                 v.passed, v.adjustedSize, v.checks)
    /\ UNCHANGED <<now, nextId, app, engineState, storage>>

CalculateSafePositionSize ==
    /\ \E signal \in GateSignals, capital \in Capitals, regime \in Regimes :
          last' = GateCall("calculateSafePositionSize", signal, capital, 0, regime, TRUE,
                           calculateSafePositionSize(DEFAULT_CONFIG, signal, capital, regime),
                           <<>>)
    /\ UNCHANGED <<state, positions, transitions, dailyLossCount, lockUntil, config, now,
                   nextId, app, engineState, storage>>

GateNext ==
    \/ ValidateTrade
    \/ CalculateSafePositionSize
    \/ OpenPosition
    \/ ClosePosition
    \/ AdvanceClock

GateSpec == Init /\ [][GateNext]_vars

\* ------------------------------------------------------------------------
\* Specification of the regime engine under direct calls
\* ------------------------------------------------------------------------
\* the counter the calls may reach, and the length of the run of updateTSDCount calls kept
MaxCount == 8
MaxRun == 4

\* the counts and threshold pairs handed to determineRegime
Counts == -1..MaxCount
ThresholdPairs == { <<ThresholdA, ThresholdB>>, <<1, 2>>, <<0, MaxCount>> }
DecayAmounts == {0, 1, 2}
OverrideCounts == { <<>>, <<-2>>, <<0>>, <<ThresholdA>>, <<MaxCount>> }

\* a call without arguments, or without a return value
Nothing == [nothing |-> TRUE]

\* what a call leaves in last: its arguments and what it returned, each as a record, and the
\* run of updateTSDCount calls made since initializeTSDEngine (clean while no other call
\* has written the engine)
RegimeCall(op, arg, ret, clean, run) ==
    [op |-> op, id |-> 0, retId |-> 0, arg |-> arg, ret |-> ret, clean |-> clean, run |-> run]

RegimeInit ==
    /\ state = "IDLE"
    /\ positions = <<>>
    /\ transitions = <<>>
    /\ dailyLossCount = 0
    /\ lockUntil = NoLock
    /\ config = DefaultConfig
    /\ now = 0
    /\ nextId = 1
    /\ app = initialState
    /\ engineState = initializeTSDEngine
    /\ storage = emptyStorage
    /\ last = RegimeCall("none", Nothing, Nothing, TRUE, <<>>)

RegimeFrame ==
    UNCHANGED <<state, positions, transitions, dailyLossCount, lockUntil, config, now, nextId,
                app, storage>>

InitializeTSDEngine ==
    /\ engineState' = initializeTSDEngine
    /\ last' = RegimeCall("initializeTSDEngine", Nothing, Nothing, TRUE, <<>>)
    /\ RegimeFrame

\* the run after one more updateTSDCount
Ran(isTSD, engine) ==
    IF last.clean /\ Len(last.run) < MaxRun
    THEN Append(last.run, [isTSD |-> isTSD, count |-> engine.tsdCount, regime |-> engine.regime])
    ELSE <<>>

UpdateTSDCount ==
    /\ engineState.tsdCount < MaxCount
    /\ \E isTSD \in BOOLEAN :
          \E u \in {updateTSDCount(engineState, isTSD)} :
             /\ engineState' = u.engineState
             /\ last' = RegimeCall("updateTSDCount", [isTSD |-> isTSD], [count |-> u.ret],
                                   last.clean /\ Len(last.run) < MaxRun,
                                   Ran(isTSD, u.engineState))
    /\ RegimeFrame

ApplyTSDDecay ==
    /\ \E decayAmount \in DecayAmounts :
          \E u \in {applyTSDDecay(engineState, decayAmount)} :
             /\ engineState' = u.engineState
             /\ last' = RegimeCall("applyTSDDecay", [decayAmount |-> decayAmount],
                                   [count |-> u.ret], FALSE, <<>>)
    /\ RegimeFrame

ProcessDailyMetrics ==
    /\ engineState.tsdCount < MaxCount
    /\ \E isTSD \in BOOLEAN :
          \E u \in {processDailyMetrics(engineState, [isTSD |-> isTSD])} :
             /\ engineState' = u.engineState
             /\ last' = RegimeCall("processDailyMetrics", [isTSD |-> isTSD],
                                   [newTSDCount |-> u.newTSDCount, newRegime |-> u.newRegime,
                                    permissions |-> u.permissions],
                                   FALSE, <<>>)
    /\ RegimeFrame

SetRegimeOverride ==
    /\ \E regime \in Regimes, tsdCount \in OverrideCounts :
          /\ engineState' = setRegimeOverride(engineState, regime, tsdCount)
          /\ last' = RegimeCall("setRegimeOverride", [regime |-> regime, tsdCount |-> tsdCount],
                                Nothing, FALSE, <<>>)
    /\ RegimeFrame

DetermineRegime ==
    /\ \E tsdCount \in Counts, thresholds \in ThresholdPairs :
          last' = RegimeCall("determineRegime",
                             [tsdCount |-> tsdCount, thresholdA |-> thresholds[1],
                              thresholdB |-> thresholds[2]],
                             [regime |-> determineRegime(tsdCount, thresholds[1],
                                                         thresholds[2])],
                             last.clean, last.run)
    /\ UNCHANGED engineState
    /\ RegimeFrame

GetRegimePermissions ==
    /\ \E regime \in {<<>>} \cup {<<r>> : r \in Regimes} :
          last' = RegimeCall("getRegimePermissions", [given |-> regime],
                             [permissions |->
                                  getRegimePermissions(currentRegime(engineState, regime))],
                             last.clean, last.run)
    /\ UNCHANGED engineState
    /\ RegimeFrame

RegimeNext ==
    \/ InitializeTSDEngine
    \/ UpdateTSDCount
    \/ ApplyTSDDecay
    \/ ProcessDailyMetrics
    \/ SetRegimeOverride
    \/ DetermineRegime
    \/ GetRegimePermissions

RegimeSpec == RegimeInit /\ [][RegimeNext]_vars

\* ------------------------------------------------------------------------
\* Specification of the position book: positions opened, repriced and closed at prices
\* that carry a third decimal, under the kill switch and the daily reset
\* ------------------------------------------------------------------------
PnlOpenInputs ==
    { [symbol |-> "TCS", side |-> "LONG", entry |-> 100000, current |-> 100000, qty |-> 10,
       pnl |-> 0, stopLoss |-> 98000, target |-> 106000],
      [symbol |-> "INFY", side |-> "SHORT", entry |-> 100004, current |-> 100004, qty |-> 3,
       pnl |-> 0, stopLoss |-> 102000, target |-> 94000] }
PnlCloseInputs == { <<"Target hit", 105000>>, <<"Manual exit", 98001>> }
PnlPriceMaps ==
    { [s \in Symbols |-> 105000], [s \in Symbols |-> IF s = "TCS" THEN 99001 ELSE 0] }

PnlNext ==
    \/ OpenPositionFrom(PnlOpenInputs)
    \/ ClosePositionFrom(PnlCloseInputs)
    \/ UpdatePositionPricesFrom(PnlPriceMaps)
    \/ CheckExitsFrom(PnlPriceMaps)
    \/ ActivateKillSwitch
    \/ DeactivateKillSwitch
    \/ ResetForNewDay

PnlSpec == Init /\ [][PnlNext]_vars

\* ------------------------------------------------------------------------
\* Specification of the volatility floor under direct calls
\* ------------------------------------------------------------------------
\* the candles a history is made of: one that does not move, a quiet one, an ordinary one
\* and a wide one
Candles ==
    { [high |-> 100000, low |-> 100000, close |-> 100000],
      [high |-> 100100, low |-> 99900, close |-> 100000],
      [high |-> 101000, low |-> 99000, close |-> 100000],
      [high |-> 104000, low |-> 96000, close |-> 100000] }

\* the longest head of a history
MaxHead == 9

\* a history: a head of one candle and the twelve candles of the last hour
History(n, head, hour) == [i \in 1..(n + 12) |-> IF i <= n THEN head ELSE hour]

CandleHistories == { History(n, head, hour) : n \in 0..MaxHead, head \in Candles, hour \in Candles }

\* RISK_CONFIG.MIN_FIRST_HOUR_RANGE_ATR as configured, in hundredths
MinRangeAtrs == {50, 150}

ShouldSkipToday ==
    /\ \E candles \in CandleHistories, minRangeAtr \in MinRangeAtrs :
          last' = [op |-> "shouldSkipToday", id |-> 0, retId |-> 0,
                   length |-> Len(candles), atr |-> getCurrentATR(candles, 14),
                   range |-> firstHourRange(sliceLast(candles, 12)),
                   minRangeAtr |-> minRangeAtr,
                   skip |-> shouldSkipToday(candles, minRangeAtr)]
    /\ UNCHANGED engineState
    /\ RegimeFrame

FilterNext ==
    \/ ShouldSkipToday

FilterSpec == RegimeInit /\ [][FilterNext]_vars

\* ------------------------------------------------------------------------
\* Specification of the AI confirmation: ticks of a deployment that has a key for the AI
\* ------------------------------------------------------------------------
\* a cold start: nothing in storage
ColdInit == TickInit /\ storage = emptyStorage

\* ticks in market hours on broker data that come with signals and any analysis
AdvisedEnvs ==
    { e \in EnvsWith(AiInputs, {FALSE}, {"redis"}) :
        e.riskAllowed /\ ~e.squareOff /\ ~e.isTSD /\ e.orderOk /\ e.signals # <<>> }

AdvisedTick == TickOver(AdvisedEnvs, {"redis"})

AdvisedNext ==
    \/ AdvisedTick
    \/ BrokerRoute

AdvisedSpec == ColdInit /\ [][AdvisedNext]_vars

\* ------------------------------------------------------------------------
\* Specification of persistence: ticks and the kill switch over a storage that may be
\* unreachable, across days
\* ------------------------------------------------------------------------
\* ticks outside market hours that get no quotes, at any moment, whatever storage does
StoredEnvs ==
    { e \in EnvsWith({NoAnalysis}, BOOLEAN, Stores) :
        e.riskAllowed /\ ~e.marketOpen /\ dataSource(e) = "NO_DATA" }

StoredTick == TickOver(StoredEnvs, Stores)

StoredKillSwitchRoute == KillSwitchRouteOver(Stores)

\* a direct call of loadTradingState()
LoadTradingState ==
    /\ \E store \in Stores :
          last' = [op |-> "loadTradingState", id |-> 0, retId |-> 0, store |-> store,
                   persistedState |-> loadTradingState(storage, store)]
    /\ UNCHANGED <<state, positions, transitions, dailyLossCount, lockUntil, config, now, nextId,
                   app, engineState, storage>>

\* the calendar day changes
Midnight ==
    /\ storage' = midnight(storage)
    /\ storage' # storage
    /\ last' = [NoCall EXCEPT !.op = "midnight"]
    /\ UNCHANGED <<state, positions, transitions, dailyLossCount, lockUntil, config, now, nextId,
                   app, engineState>>

StoredNext ==
    \/ StoredTick
    \/ StoredKillSwitchRoute
    \/ LoadTradingState
    \/ Midnight

StoredSpec == ColdInit /\ [][StoredNext]_vars

\* ------------------------------------------------------------------------
\* Specification of the trailing exits: ticks in market hours on broker data, during which
\* updateTrailingStop may report the stop of an open symbol breached
\* ------------------------------------------------------------------------
TradingEnvs ==
    { e \in TickEnvs : /\ e.riskAllowed /\ e.marketOpen /\ e.realData /\ e.orderOk
                       /\ ~e.squareOff /\ ~e.isTSD }

TrailTick ==
    /\ now < MaxNow
    /\ TickAt(TradingEnvs, {"redis"}, TrailExits)
    /\ now' = now + 1

TrailNext == TrailTick \/ BrokerRoute

TrailSpec == ColdInit /\ [][TrailNext]_vars

\* ------------------------------------------------------------------------
\* Specification of a trading day: ticks in market hours on broker data, in runs of
\* MaxNow ticks that are more than the lock of the state machine apart
\* ------------------------------------------------------------------------
\* from the start of a run to the start of the next: every lock set during the run has
\* elapsed
Pause == DefaultConfig.lockDurationMs + MaxNow

DayTick ==
    /\ now % Pause < MaxNow
    /\ TickAt(TradingEnvs, {"redis"}, NoTrailExits)
    /\ now' = now + 1

\* no tick comes until the lock has elapsed
LockElapses ==
    /\ now \div Pause < MaxOpened - 1
    /\ now' = (now \div Pause + 1) * Pause
    /\ last' = [NoCall EXCEPT !.op = "wait"]
    /\ UNCHANGED <<state, positions, transitions, dailyLossCount, lockUntil, config, nextId, app,
                   engineState, storage>>

DayNext == DayTick \/ LockElapses

DaySpec == ColdInit /\ [][DayNext]_vars

\* ------------------------------------------------------------------------
\* Specification of the halted application: the dashboard polls the tick for ever, the
\* operator toggles the kill switch, the days change
\* ------------------------------------------------------------------------
HaltEnvs == { e \in StoredEnvs : e.store = "redis" }

\* a tick of the poll; the clock is not counted beyond MaxNow
Poll ==
    /\ TickAt(HaltEnvs, {"redis"}, NoTrailExits)
    /\ now' = IF now < MaxNow THEN now + 1 ELSE now

HaltNext ==
    \/ Poll
    \/ KillSwitchRoute
    \/ Midnight

\* the client polls /api/tick on a timer: a tick always comes
HaltSpec == ColdInit /\ [][HaltNext]_vars /\ WF_vars(Poll)

\* ------------------------------------------------------------------------
\* api/upgraded-sweep: the trailing stop of a trade of the sweep, candle by candle
\* ------------------------------------------------------------------------
\* the candles of the loop that follow the entry; the code looks at up to 19
MaxCandles == 3

\* entry * SLIPPAGE_PCT
slippage(entry) == (entry * 5) \div 10000

\* atr * TRAILING_ATR_MULT
trailDistance(atr) == (atr * TrailingAtrMult) \div 100

\* a trade as the sweep enters it: the trailing stop starts on the stop
enterTrade(trend, entry, stop, atr) ==
    [trend |-> trend,
     entryPrice |-> IF trend = "UP" THEN entry + slippage(entry) ELSE entry - slippage(entry),
     slip |-> slippage(entry), stop |-> stop, trailDist |-> trailDistance(atr),
     trailingStop |-> stop, exited |-> FALSE, exit |-> 0]

\* a body of the loop that trails the stop behind every candle
trailCandle_anyCandle(t, c) ==
    IF t.trend = "UP"
    THEN LET trailingStop == Max(t.trailingStop, c.high - t.trailDist)
         IN  IF c.low <= trailingStop
             THEN [t EXCEPT !.trailingStop = trailingStop, !.exited = TRUE,
                            !.exit = Max(trailingStop, c.open) - t.slip]
             ELSE [t EXCEPT !.trailingStop = trailingStop]
    ELSE LET trailingStop == Min(t.trailingStop, c.low + t.trailDist)
         IN  IF c.high >= trailingStop
             THEN [t EXCEPT !.trailingStop = trailingStop, !.exited = TRUE,
                            !.exit = Min(trailingStop, c.open) + t.slip]
             ELSE [t EXCEPT !.trailingStop = trailingStop]

\* the body of the loop for one candle: the stop trailed, then the exit tested
trailCandle(t, c) ==
    IF t.trend = "UP"
    THEN LET trailingStop == IF c.high > t.entryPrice + t.trailDist
                             THEN Max(t.trailingStop, c.high - t.trailDist)
                             ELSE t.trailingStop
         IN  IF c.low <= trailingStop
             THEN [t EXCEPT !.trailingStop = trailingStop, !.exited = TRUE,
                            !.exit = Max(trailingStop, c.open) - t.slip]
             ELSE [t EXCEPT !.trailingStop = trailingStop]
    ELSE LET trailingStop == IF c.low < t.entryPrice - t.trailDist
                             THEN Min(t.trailingStop, c.low + t.trailDist)
                             ELSE t.trailingStop
         IN  IF c.high >= trailingStop
             THEN [t EXCEPT !.trailingStop = trailingStop, !.exited = TRUE,
                            !.exit = Min(trailingStop, c.open) + t.slip]
             ELSE [t EXCEPT !.trailingStop = trailingStop]

\* the trades entered: the close of the confirmation candle, the stop beyond the swing, the
\* ATR
SweepTrades ==
    { [trend |-> "UP", entry |-> 100000, stop |-> 98000, atr |-> 2000],
      [trend |-> "UP", entry |-> 100000, stop |-> 99000, atr |-> 1000],
      [trend |-> "DOWN", entry |-> 100000, stop |-> 102000, atr |-> 2000],
      [trend |-> "DOWN", entry |-> 100000, stop |-> 101000, atr |-> 1000] }

\* the candles that follow: quiet, beyond the entry by more than the trail distance (up and
\* down), on the distance exactly, and through the stops
SweepCandles ==
    { [open |-> 100000, high |-> 101000, low |-> 99000],
      [open |-> 102000, high |-> 104000, low |-> 101500],
      [open |-> 104000, high |-> 106000, low |-> 103500],
      [open |-> 101000, high |-> 103050, low |-> 100500],
      [open |-> 99000, high |-> 99500, low |-> 97000],
      [open |-> 97000, high |-> 98000, low |-> 96000],
      [open |-> 97000, high |-> 97500, low |-> 96950],
      [open |-> 95000, high |-> 95500, low |-> 94000] }

\* what the sweep leaves in last: the trade, the candle just seen and how many were
SweepStep(op, t, c, seen) ==
    [op |-> op, id |-> 0, retId |-> 0, trade |-> t, candle |-> c, seen |-> seen]

EnterTrade ==
    /\ last.op \in {"none", "trail"}
    /\ \E i \in SweepTrades :
          last' = SweepStep("enter", enterTrade(i.trend, i.entry, i.stop, i.atr), Nothing, 0)
    /\ UNCHANGED <<state, positions, transitions, dailyLossCount, lockUntil, config, now,
                   nextId, app, engineState, storage>>

TrailCandle ==
    /\ last.op \in {"enter", "trail"}
    /\ ~last.trade.exited
    /\ last.seen < MaxCandles
    /\ \E c \in SweepCandles :
          last' = SweepStep("trail", trailCandle(last.trade, c), c, last.seen + 1)
    /\ UNCHANGED <<state, positions, transitions, dailyLossCount, lockUntil, config, now,
                   nextId, app, engineState, storage>>

SweepNext == EnterTrade \/ TrailCandle

SweepSpec == RegimeInit /\ [][SweepNext]_vars

\* ------------------------------------------------------------------------
\* Specification of the position cap: a machine constructed with room for one
\* position, under the calls that open, close and reset
\* ------------------------------------------------------------------------
CapConfig == [DefaultConfig EXCEPT !.lockDurationMs = 1, !.maxDailyLosses = 2,
                                  !.maxConcurrentPositions = 1]

CapInit ==
    /\ state = "IDLE"
    /\ positions = <<>>
    /\ transitions = <<>>
    /\ dailyLossCount = 0
    /\ lockUntil = NoLock
    /\ config = CapConfig
    /\ now = 0
    /\ nextId = 1
    /\ app = initialState
    /\ engineState = initializeTSDEngine
    /\ storage = emptyStorage
    /\ last = NoCall

CapNext ==
    \/ OpenPositionFrom(PnlOpenInputs)
    \/ ClosePositionFrom(CloseInputs)
    \/ CheckExitsFrom(PriceMaps)
    \/ GetState
    \/ ActivateKillSwitch
    \/ DeactivateKillSwitch
    \/ ResetForNewDay
    \/ AdvanceClock

CapSpec == CapInit /\ [][CapNext]_vars

\* ------------------------------------------------------------------------
\* Specification of the exits: long and short positions opened and handed to
\* checkExits under price maps on either side of their stops and targets
\* ------------------------------------------------------------------------
ExitPriceMaps ==
    PriceMaps \cup PnlPriceMaps \cup { [s \in Symbols |-> 94000] }

ExitNext ==
    \/ OpenPositionFrom(PnlOpenInputs)
    \/ CheckExitsFrom(ExitPriceMaps)
    \/ ResetForNewDay
    \/ AdvanceClock

ExitSpec == Init /\ [][ExitNext]_vars

\* ------------------------------------------------------------------------
\* Vocabulary of the properties
\* ------------------------------------------------------------------------
OpenIdx == {i \in 1..Len(positions) : positions[i].state \in {"FILLED", "PARTIAL"}}
OpenCount == Cardinality(OpenIdx)

\* the closes with a negative realized PnL since construction or the last reset
\* (resetForNewDay drops the CLOSED positions)
LosingCloses == Cardinality({i \in 1..Len(positions) :
                                positions[i].state = "CLOSED" /\ positions[i].pnl < 0})
\* those among them whose exit reason names a stop
LosingStopCloses == Cardinality({i \in 1..Len(positions) :
                                    /\ positions[i].state = "CLOSED"
                                    /\ positions[i].pnl < 0
                                    /\ positions[i].exitReason \in {"Stop-loss hit", "Stop Loss", "SL"}})

\* the last call was a closePosition that closed a position
JustClosed == last.op = "closePosition" /\ last.retId # 0
ClosedByLast == CHOOSE i \in 1..Len(positions) : positions[i].id = last.retId

LockExpired == lockUntil # NoLock /\ now > lockUntil
ReadOps == {"getState", "canOpenPosition", "getStateSummary"}

\* ------------------------------------------------------------------------
\* C1  Once the machine is HALTED_FOR_DAY it stays HALTED_FOR_DAY under every
\*     call other than resetForNewDay and deactivateKillSwitch.
\* ------------------------------------------------------------------------
C1_HaltedIsAbsorbing ==
    [][(state = "HALTED_FOR_DAY" /\ last'.op \notin {"resetForNewDay", "deactivateKillSwitch"})
          => state' = "HALTED_FOR_DAY"]_vars

\* ------------------------------------------------------------------------
\* C2  After a losing close the machine is HALTED_FOR_DAY when the losing
\*     closes since the last reset number maxDailyLosses (or more), and
\*     otherwise LOCKED_AFTER_LOSS with lockUntil = now + lockDurationMs.
\* ------------------------------------------------------------------------
C2_LossLocksThenHalts ==
    (JustClosed /\ positions[ClosedByLast].pnl < 0) =>
        IF LosingCloses >= config.maxDailyLosses
        THEN state = "HALTED_FOR_DAY"
        ELSE state = "LOCKED_AFTER_LOSS" /\ lockUntil = now + config.lockDurationMs

C2_Witness ==
    /\ JustClosed
    /\ positions[ClosedByLast].pnl < 0
    /\ LosingCloses = config.maxDailyLosses
    /\ state = "HALTED_FOR_DAY"

C4_CloseIsIdempotent ==
    [][last'.op = "closePosition" =>
          LET open == \E i \in 1..Len(positions) :
                          positions[i].id = last'.id /\ positions[i].state # "CLOSED"
          IN  /\ ~open => /\ last'.retId = 0
                          /\ UNCHANGED <<state, positions, transitions, dailyLossCount, lockUntil>>
              \* a close that went through leaves the position CLOSED for the next call
              /\ open => /\ last'.retId = last'.id
                         /\ \A i \in 1..Len(positions') :
                               positions'[i].id = last'.id => positions'[i].state = "CLOSED"]_vars

C4_Witness ==
    /\ last.op = "closePosition"
    /\ last.retId = 0
    /\ \E i \in 1..Len(positions) : positions[i].id = last.id /\ positions[i].state = "CLOSED"

\* ------------------------------------------------------------------------
\* C5  canOpenPosition refuses exactly when the machine is HALTED_FOR_DAY,
\*     or LOCKED_AFTER_LOSS with the lock not yet elapsed, or POSITION_OPEN
\*     with as many open positions as maxConcurrentPositions; otherwise it
\*     allows.
\* ------------------------------------------------------------------------
C5_CanOpenExactly ==
    canOpenPosition(SM, now).allowed =
        ~ \/ state = "HALTED_FOR_DAY"
          \/ state = "LOCKED_AFTER_LOSS" /\ ~LockExpired
          \/ state = "POSITION_OPEN" /\ OpenCount >= config.maxConcurrentPositions

C5_Witness ==
    /\ last.op = "canOpenPosition"
    /\ state = "POSITION_OPEN"
    /\ OpenCount = config.maxConcurrentPositions
    /\ ~canOpenPosition(SM, now).allowed

\* ------------------------------------------------------------------------
\* C6  openPosition, when canOpenPosition allows, appends exactly one FILLED
\*     position and leaves the machine POSITION_OPEN; when canOpenPosition
\*     denies, it returns null and leaves the positions, the state and the
\*     loss counter unchanged.
\* ------------------------------------------------------------------------
C6_OpenAppendsOrRefuses ==
    \A position \in OpenInputs :
        LET check == canOpenPosition(SM, now)
            r == openPosition(SM, position, nextId, now)
        IN  IF check.allowed
            THEN /\ r.ret = nextId
                 /\ Len(r.sm.positions) = Len(positions) + 1
                 /\ SubSeq(r.sm.positions, 1, Len(positions)) = positions
                 /\ r.sm.positions[Len(positions) + 1].id = nextId
                 /\ r.sm.positions[Len(positions) + 1].state = "FILLED"
                 /\ r.sm.state = "POSITION_OPEN"
                 /\ check.sm.state \in {"IDLE", "WAITING_FOR_TRIGGER", "POSITION_OPEN"}
            ELSE /\ r.ret = 0
                 /\ r.sm.positions = positions
                 /\ r.sm.state = state
                 /\ r.sm.dailyLossCount = dailyLossCount

C6_Witness ==
    /\ last.op = "openPosition"
    /\ last.retId = 0
    /\ state = "HALTED_FOR_DAY"
    /\ ~canOpenPosition(SM, now).allowed

\* ------------------------------------------------------------------------
\* C7  resetForNewDay called in HALTED_FOR_DAY or LOCKED_AFTER_LOSS with an
\*     open position remaining keeps the open positions and leaves the
\*     machine POSITION_OPEN, not IDLE.
\* ------------------------------------------------------------------------
C7_ResetKeepsPositionOpen ==
    [][(/\ last'.op = "resetForNewDay"
        /\ state \in {"HALTED_FOR_DAY", "LOCKED_AFTER_LOSS"}
        /\ OpenCount > 0)
          => (state' = "POSITION_OPEN" /\ positions' = SelectSeq(positions, notClosed))]_vars

\* ------------------------------------------------------------------------
\* C8  activateKillSwitch leaves the machine HALTED_FOR_DAY whatever its
\*     state; deactivateKillSwitch in HALTED_FOR_DAY restores POSITION_OPEN
\*     when open positions remain and IDLE otherwise, and outside
\*     HALTED_FOR_DAY changes neither the state nor the log.
\* ------------------------------------------------------------------------
C8_KillSwitch ==
    [][/\ last'.op = "activateKillSwitch" => state' = "HALTED_FOR_DAY"
       /\ (last'.op = "deactivateKillSwitch" /\ state = "HALTED_FOR_DAY")
             => (/\ state' = (IF OpenCount > 0 THEN "POSITION_OPEN" ELSE "IDLE")
                 /\ Len(transitions') = Len(transitions) + 1)
       /\ (last'.op = "deactivateKillSwitch" /\ state # "HALTED_FOR_DAY")
             => UNCHANGED <<state, transitions, positions, dailyLossCount, lockUntil>>]_vars

C8_Witness ==
    /\ last.op = "deactivateKillSwitch"
    /\ state = "POSITION_OPEN"
    /\ Len(transitions) > 0
    /\ transitions[Len(transitions)].from = "HALTED_FOR_DAY"

\* ------------------------------------------------------------------------
\* C9  The lock expires lazily: in LOCKED_AFTER_LOSS a read (getState,
\*     canOpenPosition, getStateSummary) leaves the machine LOCKED while
\*     now <= lockUntil and moves it to IDLE once now > lockUntil; the
\*     passing of time alone leaves the stored state LOCKED_AFTER_LOSS.
\* ------------------------------------------------------------------------
C9_LazyLockExpiry ==
    [][/\ (state = "LOCKED_AFTER_LOSS" /\ last'.op \in ReadOps)
             => state' = (IF LockExpired THEN "IDLE" ELSE "LOCKED_AFTER_LOSS")
       /\ (state = "LOCKED_AFTER_LOSS" /\ last'.op = "advanceClock")
             => state' = "LOCKED_AFTER_LOSS"]_vars

C9_Witness ==
    /\ last.op \in ReadOps
    /\ state = "IDLE"
    /\ now > lockUntil
    /\ Len(transitions) > 0
    /\ transitions[Len(transitions)] =
          [from |-> "LOCKED_AFTER_LOSS", to |-> "IDLE", trigger |-> "Lock period expired"]

\* the notional in the symbol of position i once it is opened: its own and that of the
\* earlier positions of the symbol still open
RECURSIVE notionalUpTo(_, _, _)
notionalUpTo(ps, i, j) ==
    IF j > i
    THEN 0
    ELSE (IF ps[j].symbol = ps[i].symbol /\ (j = i \/ ps[j].state \in {"FILLED", "PARTIAL"})
          THEN ps[j].entry * ps[j].qty
          ELSE 0) + notionalUpTo(ps, i, j + 1)

\* ------------------------------------------------------------------------
\* C10 Every position a tick opens keeps the exposure in its symbol within
\*     the cap: the notional (entry x qty) of the positions already open in
\*     that symbol plus entry x qty of the position opened is at most
\*     maxSingleStockExposure x capital.
\* ------------------------------------------------------------------------
C10_TickKeepsExposureCap ==
    [][last'.op = "tick" =>
          \A i \in (Len(positions) + 1)..Len(positions') :
              notionalUpTo(positions', i, 1) <=
                  (app'.initial_capital \div 10000) * DEFAULT_CONFIG.maxSingleStockExposure]_vars

\* the positions the step from this state to the next appended
Opened == (Len(positions) + 1)..Len(positions')

\* ------------------------------------------------------------------------
\* C11 Every position a tick opens risks at most maxRiskPerTrade x capital:
\*     |entry - stop| x the quantity opened (the gate's adjustedSize after
\*     the AI multiplier) is at most maxRiskPerTrade x capital.
\* ------------------------------------------------------------------------
C11_TickKeepsPerTradeRisk ==
    [][last'.op = "tick" =>
          \A i \in Opened :
              abs(positions'[i].entry - positions'[i].stopLoss) * positions'[i].qty <=
                  fractionOf(app'.initial_capital, DEFAULT_CONFIG.maxRiskPerTrade)]_vars

\* the positions open when position i of the next state was opened: the earlier ones that
\* are open in the next state (a tick closes positions only before it opens any)
OpenBefore(i) == Cardinality({j \in 1..(i - 1) : positions'[j].state \in {"FILLED", "PARTIAL"}})

\* ------------------------------------------------------------------------
\* C12 No tick opens a position while the number of open positions,
\*     counting those opened earlier in the same tick, is already at least
\*     min(gate maxConcurrentPositions, regime maxConcurrentTrades) for the
\*     regime of the tick.
\* ------------------------------------------------------------------------
C12_TickKeepsPositionCap ==
    [][last'.op = "tick" =>
          \A i \in Opened :
              OpenBefore(i) < Min(DEFAULT_CONFIG.maxConcurrentPositions,
                                  getRegimePermissions(last'.regime).maxConcurrentTrades)]_vars

\* ------------------------------------------------------------------------
\* C13 validateTrade never changes trading state: the system state, the
\*     positions, the daily loss counter, lockUntil and the transition log
\*     are the same before and after a validateTrade call, in every state
\*     of the machine.
\* ------------------------------------------------------------------------
C13_ValidateTradeChangesNothing ==
    [][last'.op = "validateTrade" =>
          UNCHANGED <<state, positions, dailyLossCount, lockUntil, transitions>>]_vars

\* ------------------------------------------------------------------------
\* C14 The adjustedSize validateTrade returns is at least 1, whatever the
\*     signal, the capital, the PnL of the day, the regime and the open
\*     positions: also when capital x maxRiskPerTrade is below the stop
\*     distance and when the entry is the stop.
\* ------------------------------------------------------------------------
C14_AdjustedSizeAtLeastOne == last.op = "validateTrade" => last.size >= 1

\* validateTrade has answered for a stop further away than the risk budget
C14_Witness ==
    /\ last.op = "validateTrade"
    /\ abs(last.signal.entry - last.signal.stop) >
          fractionOf(last.capital, DEFAULT_CONFIG.maxRiskPerTrade)
    /\ last.size = 1

\* the sizing scenario: capital 100000, maxRiskPerTrade 1%, entry 100, stop 98
SizingScenario(call) ==
    /\ call.capital = InitialCapital
    /\ call.signal.entry = 100000
    /\ call.signal.stop = 98000
    /\ call.signal.requestedQty = NoQty

\* ------------------------------------------------------------------------
\* C15 For a signal without requestedQty the recommended size is
\*     max(1, floor(floor(capital x maxRiskPerTrade / |entry - stop|) x the
\*     regime's size multiplier)); with capital 100000, maxRiskPerTrade
\*     0.01, entry 100 and stop 98 the base size is 500 and the adjusted
\*     size 500, 250 and 125 in RANGE_NEUTRAL, EMERGING_TREND and
\*     ESTABLISHED_TREND.  (The quotient is defined when the entry is not
\*     the stop; C14 covers the size when it is.)
\* ------------------------------------------------------------------------
C15_RecommendedSize ==
    (/\ last.op \in {"validateTrade", "calculateSafePositionSize"}
     /\ last.signal.requestedQty = NoQty
     /\ last.signal.entry # last.signal.stop)
       => /\ last.size =
                Max(1, (((((last.capital \div 10000) * DEFAULT_CONFIG.maxRiskPerTrade)
                            \div abs(last.signal.entry - last.signal.stop))
                         * getRegimePermissions(last.regime).maxPositionSizeMultiplier)
                        \div 100))
          /\ SizingScenario(last) =>
                /\ DEFAULT_CONFIG.maxRiskPerTrade = 100
                /\ calculatePositionSize(DEFAULT_CONFIG, last.signal, last.capital) = 500
                /\ last.regime = "RANGE_NEUTRAL" => last.size = 500
                /\ last.regime = "EMERGING_TREND" => last.size = 250
                /\ last.regime = "ESTABLISHED_TREND" => last.size = 125

\* validateTrade has sized the scenario's signal in ESTABLISHED_TREND
C15_Witness ==
    /\ last.op = "validateTrade"
    /\ SizingScenario(last)
    /\ last.regime = "ESTABLISHED_TREND"
    /\ last.size = 125

\* ------------------------------------------------------------------------
\* C16 In live mode a signal whose placeOrder reports failure creates no
\*     position: a tick opens at most as many positions as it had orders
\*     acknowledged with success.
\* ------------------------------------------------------------------------
C16_RefusedOrderOpensNothing ==
    [][(last'.op = "tick" /\ last'.orders > 0) =>
          Len(positions') - Len(positions) <= last'.orders - last'.refused]_vars

\* the places in the calls of a tick of the calls named
CallsOf(calls, names) == {i \in 1..Len(calls) : calls[i] \in names}

\* every call named in first comes before every call named in then
Precedes(calls, first, then) ==
    \A i \in CallsOf(calls, first), j \in CallsOf(calls, then) : i < j

\* ------------------------------------------------------------------------
\* C17 as stated: within a tick updatePositionPrices comes before
\*     checkExits, and checkExits completes before any new signal is
\*     generated, risk-validated or executed.
\* ------------------------------------------------------------------------
C17_ExitsBeforeSignalsAreGenerated ==
    last.op = "tick" =>
       /\ Precedes(last.calls, {"updatePositionPrices"}, {"checkExits"})
       /\ Precedes(last.calls, {"checkExits"},
                   {"generateSignal", "validateTrade", "placeOrder", "openPosition"})

\* ------------------------------------------------------------------------
\* C17 amended: within a tick updatePositionPrices comes before checkExits,
\*     and checkExits completes before any new signal is risk-validated or
\*     executed (signals are generated before it), so the positions
\*     checkExits closed in this tick are not among the open positions the
\*     gate is handed to admit new trades in the same tick.
\* ------------------------------------------------------------------------
C17_ExitsBeforeSignalsAreAdmitted ==
    last.op = "tick" =>
       /\ Precedes(last.calls, {"updatePositionPrices"}, {"checkExits"})
       /\ Precedes(last.calls, {"checkExits"}, {"validateTrade", "placeOrder", "openPosition"})
       \* the positions open now are those the gate was handed and those the tick opened
       /\ last.counted # NoCount => last.counted = OpenCount - last.opened

\* a tick closed a position at its target and then admitted and opened a new one
C17_Witness ==
    /\ last.op = "tick"
    /\ last.counted = 0
    /\ last.opened = 1
    /\ \E k \in 1..Len(positions) :
          positions[k].state = "CLOSED" /\ positions[k].exitReason = "Target hit"
    /\ Len(transitions) >= 3
    /\ transitions[Len(transitions) - 1].trigger = "All positions closed"
    /\ transitions[Len(transitions)].trigger = "Opened"

\* ------------------------------------------------------------------------
\* C18 A tick in which every quote source returns nothing (data source
\*     NO_DATA) generates no signal, opens no position, changes no
\*     position's price or PnL, closes no position, and returns status
\*     success.
\* ------------------------------------------------------------------------
C18_NoDataTickDoesNothing ==
    [][(last'.op = "tick" /\ last'.data_source = "NO_DATA") =>
          /\ last'.signals_count = 0
          /\ last'.opened = 0
          /\ positions' = positions
          /\ last'.status = "success"]_vars

\* a tick without quotes has run over an open position
C18_Witness ==
    /\ last.op = "tick"
    /\ last.data_source = "NO_DATA"
    /\ last.status = "success"
    /\ OpenCount > 0

\* ------------------------------------------------------------------------
\* C19 While the kill_switch flag is set, every tick forces the machine to
\*     HALTED_FOR_DAY, returns status halted, opens no position and places
\*     no order.
\* ------------------------------------------------------------------------
C19_KillSwitchHaltsTicks ==
    [][(last'.op = "tick" /\ hydrate(app, storage, last'.store).kill_switch) =>
          /\ state' = "HALTED_FOR_DAY"
          /\ last'.status = "halted"
          /\ positions' = positions
          /\ last'.orders = 0
          /\ last'.calls = <<>>]_vars

\* a tick has run with the kill switch set while a position was open
C19_Witness ==
    /\ last.op = "tick"
    /\ app.kill_switch
    /\ last.status = "halted"
    /\ state = "HALTED_FOR_DAY"
    /\ OpenCount > 0

\* ------------------------------------------------------------------------
\* C20 A tick whose regime, after its regime update, is ESTABLISHED_TREND
\*     opens no position: it generates no signal, and the gate fails every
\*     signal on the regime-permission check in that regime.
\* ------------------------------------------------------------------------
C20_NoEntryInEstablishedTrend ==
    /\ (last.op = "tick" /\ last.regime = "ESTABLISHED_TREND") =>
          /\ last.signals_count = 0
          /\ last.opened = 0
          /\ CallsOf(last.calls, {"validateTrade", "placeOrder", "openPosition"}) = {}
    /\ \A signal \in GateSignals :
          LET v == validateTrade(DEFAULT_CONFIG, signal, app.initial_capital, app.pnl,
                                 "ESTABLISHED_TREND", getOpenPositions(SM), SM, now)
          IN  ~v.passed /\ ~v.checks[8].passed

\* a tick has run in ESTABLISHED_TREND in market hours on broker data, the machine free to
\* open a position
C20_Witness ==
    /\ last.op = "tick"
    /\ last.regime = "ESTABLISHED_TREND"
    /\ last.data_source = "DHAN_LIVE"
    /\ last.status = "success"
    /\ canOpenPosition(SM, now).allowed

\* the order of the regimes
regimeRank(regime) ==
    CASE regime = "RANGE_NEUTRAL" -> 0
      [] regime = "EMERGING_TREND" -> 1
      [] regime = "ESTABLISHED_TREND" -> 2

\* C21: for thresholds A < B, determineRegime gives RANGE_NEUTRAL below A, EMERGING_TREND
\* from A up to B and ESTABLISHED_TREND from B on, so that no smaller count gives a later
\* regime; with the default thresholds a count of 0 is RANGE_NEUTRAL
C21_DetermineRegimeMonotonic ==
    last.op = "determineRegime" =>
        LET tsdCount == last.arg.tsdCount
            A == last.arg.thresholdA
            B == last.arg.thresholdB
        IN  /\ A < B
            /\ tsdCount < A => last.ret.regime = "RANGE_NEUTRAL"
            /\ (A <= tsdCount /\ tsdCount < B) => last.ret.regime = "EMERGING_TREND"
            /\ tsdCount >= B => last.ret.regime = "ESTABLISHED_TREND"
            /\ \A lower \in Counts :
                  lower <= tsdCount =>
                      regimeRank(determineRegime(lower, A, B)) <= regimeRank(last.ret.regime)
            /\ determineRegime(0, ThresholdA, ThresholdB) = "RANGE_NEUTRAL"

\* determineRegime was asked about a count that sits on the first threshold
C21_Witness ==
    /\ last.op = "determineRegime"
    /\ last.arg = [tsdCount |-> ThresholdA, thresholdA |-> ThresholdA, thresholdB |-> ThresholdB]
    /\ last.ret.regime = "EMERGING_TREND"

\* the flags handed to the calls of a run, the counts they returned and the regimes they left
RunFlags(run) == [k \in 1..Len(run) |-> run[k].isTSD]
RunCounts(run) == [k \in 1..Len(run) |-> run[k].count]
RunRegimes(run) == [k \in 1..Len(run) |-> run[k].regime]

\* C22: updateTSDCount adds one to the counter on a shift day and takes one off, never below
\* zero, on any other day, and returns the new counter; from an initialized engine the flags
\* shift, shift, shift, no shift give the counts 1, 2, 3, 2 and the regimes RANGE_NEUTRAL,
\* RANGE_NEUTRAL, EMERGING_TREND, RANGE_NEUTRAL
C22_UpdateTSDCount ==
    [][last'.op = "updateTSDCount" =>
          /\ engineState'.tsdCount = IF last'.arg.isTSD
                                     THEN engineState.tsdCount + 1
                                     ELSE IF engineState.tsdCount > 0
                                          THEN engineState.tsdCount - 1
                                          ELSE 0
          /\ last'.ret.count = engineState'.tsdCount
          /\ (last'.clean /\ RunFlags(last'.run) = <<TRUE, TRUE, TRUE, FALSE>>) =>
                 /\ RunCounts(last'.run) = <<1, 2, 3, 2>>
                 /\ RunRegimes(last'.run) = <<"RANGE_NEUTRAL", "RANGE_NEUTRAL",
                                              "EMERGING_TREND", "RANGE_NEUTRAL">>]_vars

\* three shift days and a day without a shift, from an initialized engine
C22_Witness ==
    /\ last.op = "updateTSDCount"
    /\ last.clean
    /\ RunFlags(last.run) = <<TRUE, TRUE, TRUE, FALSE>>
    /\ engineState = [tsdCount |-> 2, regime |-> "RANGE_NEUTRAL"]

\* the calls that write the counter and read the regime from it
NaturalUpdates == {"initializeTSDEngine", "updateTSDCount", "applyTSDDecay", "processDailyMetrics"}

\* C23: initializeTSDEngine, updateTSDCount, applyTSDDecay and processDailyMetrics leave the
\* regime that determineRegime reads from the counter, and a counter that is not negative
\* unless it was before; setRegimeOverride(r) leaves the regime r whatever the counter is,
\* the reads between leave it there, and the next of those calls restores the regime of the
\* counter
C23_RegimeFollowsCounter ==
    [][/\ last'.op \in NaturalUpdates =>
             /\ engineState'.regime =
                    determineRegime(engineState'.tsdCount, ThresholdA, ThresholdB)
             /\ engineState.tsdCount >= 0 => engineState'.tsdCount >= 0
             /\ last'.op = "initializeTSDEngine" => engineState'.tsdCount = 0
       /\ last'.op = "setRegimeOverride" =>
             /\ engineState'.regime = last'.arg.regime
             /\ engineState'.tsdCount = IF last'.arg.tsdCount = <<>>
                                        THEN engineState.tsdCount
                                        ELSE last'.arg.tsdCount[1]
       /\ last'.op \in {"determineRegime", "getRegimePermissions"} =>
             engineState' = engineState
       /\ (last'.op = "getRegimePermissions" /\ last'.arg.given = <<>>) =>
             last'.ret.permissions = getRegimePermissions(engineState.regime)]_vars

\* an override has left a regime that the counter does not give
C23_Witness ==
    /\ last.op = "setRegimeOverride"
    /\ last.arg.tsdCount = <<>>
    /\ engineState.regime = "ESTABLISHED_TREND"
    /\ engineState.tsdCount = 1

\* C24: getRegimePermissions gives RANGE_NEUTRAL, EMERGING_TREND and ESTABLISHED_TREND the
\* size multipliers 1.0, 0.5 and 0.25, the caps 4, 2 and 1 on concurrent trades, and the
\* trading frequencies NORMAL, REDUCED and HALTED
C24_PermissionsTable ==
    last.op = "getRegimePermissions" =>
        LET regime == currentRegime(engineState, last.arg.given)
            permissions == last.ret.permissions
        IN  /\ permissions.maxPositionSizeMultiplier =
                   CASE regime = "RANGE_NEUTRAL" -> 100
                     [] regime = "EMERGING_TREND" -> 50
                     [] regime = "ESTABLISHED_TREND" -> 25
            /\ permissions.maxConcurrentTrades =
                   CASE regime = "RANGE_NEUTRAL" -> 4
                     [] regime = "EMERGING_TREND" -> 2
                     [] regime = "ESTABLISHED_TREND" -> 1
            /\ permissions.tradingFrequency =
                   CASE regime = "RANGE_NEUTRAL" -> "NORMAL"
                     [] regime = "EMERGING_TREND" -> "REDUCED"
                     [] regime = "ESTABLISHED_TREND" -> "HALTED"

\* x rounded to two decimals is r: r has two decimals and is the nearest such amount
RoundsTo(x, r) == r % 10 = 0 /\ abs(r - x) <= 5

\* (price - entry) x qty for LONG and (entry - price) x qty for SHORT
SidedPnl(p, price) ==
    IF p.side = "LONG" THEN (price - p.entry) * p.qty ELSE (p.entry - price) * p.qty

\* C26: closePosition leaves the closed position the PnL (exitPrice - entry) x qty for LONG
\* and (entry - exitPrice) x qty for SHORT, rounded to two decimals, so a LONG of 10 opened
\* at 100 and closed at 105 has 50.00; updatePositionPrices gives every FILLED position with
\* a mapped price the same formula on the mapped price and leaves the others alone
C26_PnlFormula ==
    [][/\ (last'.op = "closePosition" /\ last'.retId # 0) =>
             \E i \in 1..Len(positions), c \in PnlCloseInputs :
                /\ positions[i].id = last'.id
                /\ positions'[i].state = "CLOSED"
                /\ positions'[i].current = c[2]
                /\ RoundsTo(SidedPnl(positions[i], c[2]), positions'[i].pnl)
                /\ (positions[i].side = "LONG" /\ positions[i].entry = 100000
                    /\ positions[i].qty = 10 /\ c[2] = 105000) => positions'[i].pnl = 50000
       /\ last'.op = "updatePositionPrices" =>
             \E priceMap \in PnlPriceMaps :
                /\ Len(positions') = Len(positions)
                /\ \A i \in 1..Len(positions) :
                      IF positions[i].state = "FILLED" /\ priceMap[positions[i].symbol] # 0
                      THEN /\ positions'[i].current = priceMap[positions[i].symbol]
                           /\ RoundsTo(SidedPnl(positions[i], priceMap[positions[i].symbol]),
                                       positions'[i].pnl)
                      ELSE positions'[i] = positions[i]]_vars

\* a LONG of 10 opened at 100 was closed at 105 with a PnL of 50.00
C26_Witness ==
    /\ last.op = "closePosition"
    /\ last.retId # 0
    /\ \E i \in 1..Len(positions) :
          /\ positions[i].id = last.retId
          /\ positions[i].side = "LONG"
          /\ positions[i].entry = 100000 /\ positions[i].qty = 10
          /\ positions[i].current = 105000 /\ positions[i].pnl = 50000

\* C27: a CLOSED position stays as closePosition left it: updatePositionPrices, checkExits,
\* closePosition, openPosition and the kill switch keep its place, its
\* lifecycle state, current price, PnL and exit reason, so it never counts as open again;
\* resetForNewDay, and nothing else, removes it
C27_ClosedIsFrozen ==
    [][\A i \in 1..Len(positions) :
          positions[i].state = "CLOSED" =>
              IF last'.op = "resetForNewDay"
              THEN \A j \in 1..Len(positions') : positions'[j].id # positions[i].id
              ELSE /\ i <= Len(positions')
                   /\ positions'[i] = positions[i]
                   /\ ~isOpen(positions'[i])
                   /\ \A k \in 1..Len(getOpenPositions([positions |-> positions'])) :
                         getOpenPositions([positions |-> positions'])[k].id # positions[i].id]_vars

\* a position closed at 98.001 has sat through an updatePositionPrices that maps its symbol
C27_Witness ==
    /\ last.op = "updatePositionPrices"
    /\ \E i \in 1..Len(positions) :
          /\ positions[i].state = "CLOSED"
          /\ positions[i].symbol = "TCS"
          /\ positions[i].current = 98001
          /\ positions[i].exitReason = "Manual exit"

\* C28: shouldSkipToday skips the day when fewer than 20 candles are at hand and when ATR(14)
\* is zero or less, and otherwise skips exactly when the first-hour range is below the
\* configured minimum of ATRs
C28_SkipsOnInsufficientData ==
    last.op = "shouldSkipToday" =>
        /\ last.length < 20 => last.skip
        /\ (last.length >= 20 /\ last.atr <= 0) => last.skip
        /\ (last.length >= 20 /\ last.atr > 0) =>
               (last.skip <=> last.range * 100 < last.minRangeAtr * last.atr)


\* the AI trend is on the side of the signal, or against it
agrees(side, trend) ==
    (side = "LONG" /\ trend = "BULLISH") \/ (side = "SHORT" /\ trend = "BEARISH")

disagrees(side, trend) ==
    (side = "LONG" /\ trend = "BEARISH") \/ (side = "SHORT" /\ trend = "BULLISH")

\* the positions a step has added to those before it
NewPositions(before, after) == { after[k] : k \in (Len(before) + 1)..Len(after) }

\* C25: for every signal a tick confirms with an AI analysis, resolveConflict yields PROCEED
\* and the tick opens the full size when the confidence is below 40 or the trend agrees with
\* the side; REDUCE_SIZE and half the size (rounded down) when the trend is NEUTRAL or
\* disagrees, at a confidence of 40 to 69 for a disagreement and of at least 40 for NEUTRAL;
\* SKIP and no position when it disagrees at a confidence of 70 or more.
C25_AiConfirmation ==
    [][last'.op = "tick" =>
          \A j \in 1..Len(last'.confirmed) :
             LET c == last'.confirmed[j]
                 opened == { p \in NewPositions(positions, positions') : p.symbol = c.symbol }
                 OpenedWith(qty) == opened # {} /\ \A p \in opened : p.qty = qty
                 Resolved(resolution) ==
                     resolveConflict(c.side, c.ai[1], last'.regime).resolution = resolution
             IN  c.ai # NoAnalysis =>
                    /\ (c.ai[1].confidence < 40 \/ agrees(c.side, c.ai[1].trend)) =>
                          (Resolved("PROCEED") /\ OpenedWith(c.size))
                    /\ (c.ai[1].confidence >= 40 /\ c.ai[1].trend = "NEUTRAL") =>
                          (Resolved("REDUCE_SIZE") /\ OpenedWith(c.size \div 2))
                    /\ (/\ disagrees(c.side, c.ai[1].trend)
                        /\ c.ai[1].confidence >= 40 /\ c.ai[1].confidence < 70) =>
                          (Resolved("REDUCE_SIZE") /\ OpenedWith(c.size \div 2))
                    /\ (disagrees(c.side, c.ai[1].trend) /\ c.ai[1].confidence >= 70) =>
                          (Resolved("SKIP") /\ opened = {})]_vars

\* a tick confirmed a LONG and a SHORT with a BEARISH analysis of confidence 69: half of the
\* 500 shares of the LONG were opened, and all 500 of the SHORT
C25_Witness ==
    /\ last.op = "tick"
    /\ Len(last.confirmed) = 2
    /\ \A j \in 1..2 :
          last.confirmed[j].ai = << [success |-> TRUE, trend |-> "BEARISH", confidence |-> 69] >>
    /\ last.confirmed[1].side = "LONG" /\ last.confirmed[1].size = 500
    /\ last.confirmed[2].side = "SHORT" /\ last.confirmed[2].size = 500
    /\ Len(positions) = 2
    /\ positions[1].symbol = last.confirmed[1].symbol /\ positions[1].qty = 250
    /\ positions[2].symbol = last.confirmed[2].symbol /\ positions[2].qty = 500


\* the snapshots of the trading state a call can read: the one of Redis when Redis answers,
\* the one of the file when the directory can be read
Readable(st, store) ==
    (IF store = "redis" /\ st.redis["state"] # NoData THEN {st.redis["state"][1]} ELSE {})
    \cup (IF store # "down" /\ st.file["state"] # NoData THEN {st.file["state"][1]} ELSE {})

\* C29: loadTradingState returns a snapshot only if it was saved on the current calendar day;
\* when every snapshot it can read, in Redis or in the file, is of a prior day, and when there
\* is none, it returns null, and a tick then keeps the kill switch, the mode and the capital
\* it had in memory.
C29_StaleSnapshotIsDiscarded ==
    [][/\ last'.op = "loadTradingState" =>
             /\ last'.persistedState # NoData =>
                   /\ last'.persistedState[1].savedToday
                   /\ last'.persistedState[1] \in Readable(storage, last'.store)
             /\ (\A snapshot \in Readable(storage, last'.store) : ~snapshot.savedToday) =>
                   last'.persistedState = NoData
       /\ (/\ last'.op = "tick"
           /\ \A snapshot \in Readable(storage, last'.store) : ~snapshot.savedToday) =>
             /\ app'.kill_switch = app.kill_switch
             /\ app'.paper_mode = app.paper_mode
             /\ app'.initial_capital = app.initial_capital
             /\ app.kill_switch => last'.status = "halted"
             /\ last'.status = "success" => ~app.kill_switch]_vars

\* Redis holds a snapshot of a prior day in which the kill switch is off, the switch is on in
\* memory, and a tick that could read Redis was halted by the switch in memory
C29_Witness ==
    /\ last.op = "tick"
    /\ last.store = "redis"
    /\ last.status = "halted"
    /\ app.kill_switch
    /\ storage.redis["state"] # NoData
    /\ ~storage.redis["state"][1].savedToday
    /\ ~storage.redis["state"][1].data.kill_switch


\* C30: when a tick has returned 'success' without saving, because the moment was not one to
\* save at or because the write reached neither Redis nor the file, the next tick starts from
\* what that tick left in memory: the trading state and the regime counter it takes from
\* storage, if it takes any, are those in memory.
C30_NextTickStartsFromMemory ==
    [][(/\ last.op = "tick" /\ last.status = "success"
        /\ (~last.persist \/ last.store = "down")
        /\ last'.op = "tick") =>
          /\ hydrate(app, storage, last'.store) = app
          /\ importState(engineState, loadRegimeState(storage, last'.store)) = engineState]_vars


\* ------------------------------------------------------------------------
\* C33 resetForNewDay, from any state, leaves the loss counter at 0, the lock
\*     cleared and the transition log empty, drops the CLOSED positions and
\*     keeps every other position as it was, in order, and leaves the states
\*     IDLE, WAITING_FOR_TRIGGER and POSITION_OPEN as they were.
\* ------------------------------------------------------------------------
C33_ResetForNewDay ==
    [][last'.op = "resetForNewDay"
          => /\ dailyLossCount' = 0
             /\ lockUntil' = NoLock
             /\ positions' = SelectSeq(positions, notClosed)
             /\ \A i \in 1..Len(positions') : positions'[i].state # "CLOSED"
             /\ transitions' = <<>>
             /\ state \in {"IDLE", "WAITING_FOR_TRIGGER", "POSITION_OPEN"} => state' = state]_vars

\* a reset has dropped a CLOSED position and kept an open one, in POSITION_OPEN
C33_Witness ==
    /\ last.op = "resetForNewDay"
    /\ state = "POSITION_OPEN"
    /\ nextId = 3
    /\ Len(positions) = 1
    /\ OpenCount = 1


\* ------------------------------------------------------------------------
\* C36 Whenever the state is IDLE or WAITING_FOR_TRIGGER there is no open
\*     (FILLED or PARTIAL) position.
\* ------------------------------------------------------------------------
C36_IdleMeansNoOpenPosition ==
    state \in {"IDLE", "WAITING_FOR_TRIGGER"} => OpenCount = 0


\* ------------------------------------------------------------------------
\* C37 The number of open positions never exceeds maxConcurrentPositions.
\* ------------------------------------------------------------------------
C37_OpenPositionsWithinCap ==
    OpenCount <= config.maxConcurrentPositions


\* the claim's breach test of a position against a price map (0: no mapped price)
Breaches(p, priceMap) ==
    LET price == priceMap[p.symbol]
    IN  /\ price # 0
        /\ \/ p.side = "LONG" /\ (price <= p.stopLoss \/ price >= p.target)
           \/ p.side = "SHORT" /\ (price >= p.stopLoss \/ price <= p.target)

\* the open positions of the machine that the price map of the coming call breaches
Exiting(priceMap) == SelectSeq(positions, LAMBDA p : isOpen(p) /\ Breaches(p, priceMap))

CheckOrder ==
    << "Per-Trade Risk", "Daily Drawdown", "Max Daily Loss", "Max Positions", "Correlation",
       "Single Stock Exposure", "System State", "Regime Permission" >>

\* ------------------------------------------------------------------------
\* C35 validateTrade evaluates all eight named checks in a fixed order without
\*     short-circuit: it returns one entry per check, each with the verdict
\*     the check gives on its own, check 7 has asked the state machine
\*     whatever the earlier checks said, and the overall flag is true
\*     exactly when all eight passed.
\* ------------------------------------------------------------------------
C35_ValidateTradeRunsAllChecks ==
    [][last'.op = "validateTrade"
          => LET c == last'.checks
                 signal == last'.signal
                 capital == last'.capital
                 currentPnl == last'.currentPnl
                 regime == last'.regime
                 openPositions == getOpenPositions(SM)
             IN  /\ Len(c) = 8
                 /\ \A k \in 1..8 : c[k].name = CheckOrder[k]
                 /\ c[1].passed = checkPerTradeRisk(DEFAULT_CONFIG, signal, capital)
                 /\ c[2].passed = checkDailyDrawdown(DEFAULT_CONFIG, currentPnl, capital)
                 /\ c[3].passed = checkMaxDailyLoss(DEFAULT_CONFIG, currentPnl)
                 /\ c[4].passed = checkMaxPositions(DEFAULT_CONFIG, Len(openPositions), regime)
                 /\ c[5].passed = checkCorrelation(DEFAULT_CONFIG, signal.symbol, openPositions)
                 /\ c[6].passed = checkSingleStockExposure(DEFAULT_CONFIG, signal, capital,
                                                           openPositions)
                 /\ c[7].passed = canOpenPosition(SM, now).allowed
                 /\ c[8].passed = checkRegimePermission(regime)
                 /\ state' = getState(SM, now).state
                 /\ last'.passed <=> \A k \in 1..8 : c[k].passed]_vars

\* a call whose first check failed has let an elapsed lock go in check 7, and a later
\* check failed too
C35_Witness ==
    /\ last.op = "validateTrade"
    /\ Len(last.checks) = 8
    /\ ~last.checks[1].passed
    /\ ~last.checks[8].passed
    /\ last.checks[2].passed
    /\ ~last.passed
    /\ \E k \in 1..Len(transitions) : transitions[k].trigger = "Lock period expired"


\* ------------------------------------------------------------------------
\* C38 Every position the tick opens has a quantity of at least 1.
\* ------------------------------------------------------------------------
C38_TickOpensAtLeastOneShare ==
    \A i \in 1..Len(positions) : positions[i].qty >= 1


\* ------------------------------------------------------------------------
\* C32 When the trailing-stop update of a tick reports the stop of a symbol
\*     breached, no position in that symbol is open in the state machine
\*     when the tick returns.
\* ------------------------------------------------------------------------
C32_TrailExitClosesPosition ==
    last.op = "tick" =>
        \A s \in last.trail_exits :
            \A i \in 1..Len(positions) : isOpen(positions[i]) => positions[i].symbol # s


\* the PnL of the day: the realized PnL of the positions closed and the running PnL of those
\* open
DailyPnl == sumPnl(positions, 1)

\* ------------------------------------------------------------------------
\* C39 Once the PnL of the day, realized losses included, fails the daily
\*     drawdown check or the absolute daily loss check of the gate, a tick
\*     opens no new position.
\* ------------------------------------------------------------------------
C39_RealizedLossesStopNewTrades ==
    [][(/\ last'.op = "tick"
        /\ \/ ~checkDailyDrawdown(DEFAULT_CONFIG, DailyPnl, app.initial_capital)
           \/ ~checkMaxDailyLoss(DEFAULT_CONFIG, DailyPnl))
          => last'.opened = 0]_vars


\* the machine is halted, the kill switch flag is cleared in memory and in what a tick would
\* load, and a new day has begun: the session stored is not of today
HaltedIntoNewDay ==
    /\ state = "HALTED_FOR_DAY"
    /\ ~app.kill_switch
    /\ ~hydrate(app, storage, "redis").kill_switch
    /\ checkDailyReset(storage, "redis")

\* ------------------------------------------------------------------------
\* C40 HALTED_FOR_DAY is recoverable through the tick: once the machine is
\*     halted, the kill switch flag cleared and a new day begun, some later
\*     tick leaves canOpenPosition() allowed again, unless the operator
\*     sets the flag again first.
\* ------------------------------------------------------------------------
C40_HaltedRecoversOnNewDay ==
    HaltedIntoNewDay ~> (canOpenPosition(SM, now).allowed \/ app.kill_switch)


\* the price of the candle just seen has gone beyond the entry by more than the trail
\* distance, on the side of the trade
BeyondEntry(t, c) ==
    IF t.trend = "UP" THEN c.high > t.entryPrice + t.trailDist
    ELSE c.low < t.entryPrice - t.trailDist

\* ------------------------------------------------------------------------
\* C31 Over the candles that follow an entry the trailing stop is only
\*     tightened: that of an UP trade never decreases, that of a DOWN trade
\*     never increases, and a candle moves it only when its price has gone
\*     beyond the entry by more than the ATR multiple, so it stays on the
\*     initial stop until then.
\* ------------------------------------------------------------------------
C31_TrailingStopOnlyTightens ==
    [][last'.op = "trail"
          => LET before == last.trade
                 after == last'.trade
             IN  /\ before.trend = "UP" => after.trailingStop >= before.trailingStop
                 /\ before.trend = "DOWN" => after.trailingStop <= before.trailingStop
                 /\ after.trailingStop # before.trailingStop => BeyondEntry(before, last'.candle)
                 /\ after.stop = before.stop
                 /\ (before.trailingStop = before.stop /\ ~BeyondEntry(before, last'.candle))
                       => after.trailingStop = after.stop]_vars

\* the stop of an UP trade has been tightened twice and the trade is still open
C31_Witness ==
    /\ last.op = "trail"
    /\ last.trade.trend = "UP"
    /\ last.seen = 3
    /\ last.trade.trailingStop = 103000
    /\ ~last.trade.exited

====
